---- MODULE Spec2Model ----
(***************************************************************************)
(* A model of scrpr's content-extraction core: the newline normalizer,     *)
(* the content processor, the Markdown renderer and the remote extraction  *)
(* backends.  Text is modelled as a sequence of one-character strings, so  *)
(* that Go's strings.* functions are computed character by character.      *)
(***************************************************************************)
EXTENDS Integers, Sequences, FiniteSets, TLC

VARIABLES nl, proc, be, jp, render, clean, wrap, run, call, fetch

vars == <<nl, proc, be, jp, render, clean, wrap, run, call, fetch>>

\* a nil pointer
Nil == [nil |-> TRUE]

(***************************************************************************)
(* Go's strings package, on sequences of characters.                       *)
(***************************************************************************)

\* unicode.IsSpace restricted to the characters TLA+ can write
WhiteSpace == {" ", "\t", "\n", "\r", "\f"}

HasPrefix(s, p) == Len(s) >= Len(p) /\ SubSeq(s, 1, Len(p)) = p

HasSuffix(s, p) == Len(s) >= Len(p) /\ SubSeq(s, Len(s) - Len(p) + 1, Len(s)) = p

\* strings.Index, 1-based; 0 when sub does not occur (Go: -1)
Index(s, sub) ==
    LET hits == {i \in 1..(Len(s) - Len(sub) + 1) : SubSeq(s, i, i + Len(sub) - 1) = sub}
    IN  IF hits = {} THEN 0 ELSE CHOOSE i \in hits : \A j \in hits : i <= j

Contains(s, sub) == Index(s, sub) # 0

RECURSIVE ReplaceAll(_, _, _)
ReplaceAll(s, old, new) ==
    LET i == Index(s, old)
    IN  IF i = 0 THEN s
        ELSE SubSeq(s, 1, i - 1) \o new
             \o ReplaceAll(SubSeq(s, i + Len(old), Len(s)), old, new)

RECURSIVE Split(_, _)
Split(s, sep) ==
    LET i == Index(s, sep)
    IN  IF i = 0 THEN <<s>>
        ELSE <<SubSeq(s, 1, i - 1)>> \o Split(SubSeq(s, i + Len(sep), Len(s)), sep)

RECURSIVE Join(_, _)
Join(parts, sep) ==
    IF parts = <<>> THEN <<>>
    ELSE IF Len(parts) = 1 THEN parts[1]
    ELSE parts[1] \o sep \o Join(Tail(parts), sep)

TrimLeft(s) ==
    LET keep == {i \in 1..Len(s) : s[i] \notin WhiteSpace}
    IN  IF keep = {} THEN <<>>
        ELSE SubSeq(s, CHOOSE i \in keep : \A j \in keep : i <= j, Len(s))

TrimRight(s) ==
    LET keep == {i \in 1..Len(s) : s[i] \notin WhiteSpace}
    IN  IF keep = {} THEN <<>>
        ELSE SubSeq(s, 1, CHOOSE i \in keep : \A j \in keep : i >= j)

TrimSpace(s) == TrimRight(TrimLeft(s))

(***************************************************************************)
(* ContentProcessor.CleanNewlines                                          *)
(***************************************************************************)

UpperCase == {"A", "B", "C", "D", "E", "F", "G", "H", "I", "J", "K", "L", "M",
              "N", "O", "P", "Q", "R", "S", "T", "U", "V", "W", "X", "Y", "Z"}

\* the character U+2022 (three bytes in Go, none of them a letter or a digit)
Bullet == "<U+2022>"

Digits == {"0", "1", "2", "3", "4", "5", "6", "7", "8", "9"}

\* text = ReplaceAll(text, "\r\n", "\n"); text = ReplaceAll(text, "\r", "\n")
NormalizeLineEndings(text) ==
    ReplaceAll(ReplaceAll(text, <<"\r", "\n">>, <<"\n">>), <<"\r">>, <<"\n">>)

EndsWithPunctuation(prevLine) ==
    \/ HasSuffix(prevLine, <<".">>)
    \/ HasSuffix(prevLine, <<"!">>)
    \/ HasSuffix(prevLine, <<"?">>)
    \/ HasSuffix(prevLine, <<":">>)
    \/ HasSuffix(prevLine, <<";">>)

StartsNewSentence(line) ==
    /\ Len(line) > 0
    /\ \/ line[1] \in UpperCase
       \/ line[1] \in Digits
       \/ HasPrefix(line, <<"-", " ">>)
       \/ HasPrefix(line, <<"*", " ">>)
       \/ HasPrefix(line, <<Bullet, " ">>)

ShouldJoinEither(prevLine, line) ==
    ~EndsWithPunctuation(prevLine) \/ ~StartsNewSentence(line)

\* if !endsWithPunctuation && !startsNewSentence
ShouldJoin(prevLine, line) ==
    ~EndsWithPunctuation(prevLine) /\ ~StartsNewSentence(line)

\* the loop over the lines of one paragraph
RECURSIVE CleanLines(_, _)
CleanLines(lines, cleanedLines) ==
    IF lines = <<>> THEN cleanedLines
    ELSE LET line == TrimSpace(Head(lines))
             n    == Len(cleanedLines)
         IN  IF line = <<>> THEN CleanLines(Tail(lines), cleanedLines)
             ELSE IF n > 0 /\ ShouldJoin(cleanedLines[n], line)
             THEN CleanLines(Tail(lines),
                             [cleanedLines EXCEPT ![n] = @ \o <<" ">> \o line])
             ELSE CleanLines(Tail(lines), Append(cleanedLines, line))

KeepParagraphAlways(cleanedLines) == TRUE

\* if len(cleanedLines) > 0
KeepParagraph(cleanedLines) == Len(cleanedLines) > 0

\* the loop over the paragraphs
RECURSIVE CleanParagraphs(_)
CleanParagraphs(paragraphs) ==
    IF paragraphs = <<>> THEN <<>>
    ELSE LET cleanedLines == CleanLines(Split(Head(paragraphs), <<"\n">>), <<>>)
         IN  (IF KeepParagraph(cleanedLines)
              THEN <<Join(cleanedLines, <<"\n">>)>> ELSE <<>>)
             \o CleanParagraphs(Tail(paragraphs))

CollapseSpacesOnce(result) == ReplaceAll(result, <<" ", " ">>, <<" ">>)

\* for strings.Contains(result, "  ") { result = ReplaceAll(result, "  ", " ") }
RECURSIVE CollapseSpaces(_)
CollapseSpaces(result) ==
    IF Contains(result, <<" ", " ">>)
    THEN CollapseSpaces(ReplaceAll(result, <<" ", " ">>, <<" ">>))
    ELSE result

CleanNewlines(text) ==
    LET paragraphs == Split(NormalizeLineEndings(text), <<"\n", "\n">>)
        result     == Join(CleanParagraphs(paragraphs), <<"\n", "\n">>)
    IN  TrimSpace(CollapseSpaces(result))

(***************************************************************************)
(* The normalizer applied to a text, and applied again to its own output.  *)
(***************************************************************************)

MaxTextLen == 6

\* a letter of each case, a sentence end, a space and the newline
NLChars == {"a", "A", ".", " ", "\n"}

\* the dash of a bullet marker, among lines of lower-case text
BulletChars == {"a", "-", " ", "\n"}

\* the line endings CleanNewlines normalizes first, with a letter and a digit
LineEndingChars == {"a", "1", "\r", "\n"}

\* every text of at most n characters drawn from chars
StringsUpTo(chars, n) == UNION {[1..k -> chars] : k \in 0..n}

\* "Hello\nworld.\nThis is new."
HelloWorld ==
    <<"H", "e", "l", "l", "o", "\n", "w", "o", "r", "l", "d", ".", "\n",
      "T", "h", "i", "s", " ", "i", "s", " ", "n", "e", "w", ".">>

\* "Paragraph one.\n\nParagraph two."
TwoParagraphs ==
    <<"P", "a", "r", "a", "g", "r", "a", "p", "h", " ", "o", "n", "e", ".", "\n", "\n",
      "P", "a", "r", "a", "g", "r", "a", "p", "h", " ", "t", "w", "o", ".">>

NLTexts ==
    StringsUpTo(NLChars, MaxTextLen) \cup StringsUpTo(BulletChars, MaxTextLen)
    \cup StringsUpTo(LineEndingChars, MaxTextLen)
    \cup {HelloWorld, TwoParagraphs}

NLIdle == [pc |-> "idle", text |-> <<>>, out |-> <<>>, out2 |-> <<>>]

\* text = cp.CleanNewlines(text)
Normalize ==
    /\ nl.pc = "text"
    /\ nl' = [nl EXCEPT !.pc = "cleaned", !.out = CleanNewlines(nl.text)]
    /\ UNCHANGED <<proc, be, jp, render, clean, wrap, run, call, fetch>>

\* the output handed to CleanNewlines once more (Process, then ToText/ToMarkdown)
NormalizeAgain ==
    /\ nl.pc = "cleaned"
    /\ nl' = [nl EXCEPT !.pc = "recleaned", !.out2 = CleanNewlines(nl.out)]
    /\ UNCHANGED <<proc, be, jp, render, clean, wrap, run, call, fetch>>

(***************************************************************************)
(* ContentProcessor.Process: the length check, then go-readability, then   *)
(* the ProcessedContent record.                                            *)
(***************************************************************************)

ProcIdle ==
    [pc |-> "idle", html |-> <<>>, opts |-> Nil, readabilityCalls |-> 0,
     article |-> Nil, result |-> Nil, err |-> ""]

\* "<p>Hi</p>"
SamplePage == <<"<", "p", ">", "H", "i", "<", "/", "p", ">">>

\* the first k characters of the sample page, repeated as often as needed
PageOfLen(k) == [i \in 1..k |-> SamplePage[((i - 1) % Len(SamplePage)) + 1]]

ParagraphText == <<"H", "i", "\n", "y", "o", "u">>

TooShortInclusive(html, opts) == Len(html) <= opts.MinContentLength

\* if len(html) < opts.MinContentLength
TooShort(html, opts) == Len(html) < opts.MinContentLength

\* Process, up to the first return: the cheap pre-filter on the raw HTML
ProcessCheckLength ==
    /\ proc.pc = "start"
    /\ IF TooShort(proc.html, proc.opts)
       THEN proc' = [proc EXCEPT !.pc = "failed", !.err = "content too short"]
       ELSE proc' = [proc EXCEPT !.pc = "readability"]
    /\ UNCHANGED <<nl, be, jp, render, clean, wrap, run, call, fetch>>

MaxHtmlLen == 8

MaxMinContentLength == 8

ProcessOptionsSet ==
    {[RemoveAds |-> r, CleanHTML |-> c, MinContentLength |-> m, IncludeMetadata |-> i] :
        r \in BOOLEAN, c \in BOOLEAN, m \in 0..MaxMinContentLength, i \in BOOLEAN}

(***************************************************************************)
(* The Jina Reader response parser: extractJinaField, extractJinaMarkdown  *)
(* and stripBasicMarkdown.                                                 *)
(***************************************************************************)

\* "Title:"
TitleField == <<"T", "i", "t", "l", "e", ":">>

\* marker := "Markdown Content:"
MarkdownMarker == <<"M", "a", "r", "k", "d", "o", "w", "n", " ", "C", "o", "n", "t", "e", "n", "t", ":">>

\* strings.TrimPrefix
TrimPrefix(s, p) == IF HasPrefix(s, p) THEN SubSeq(s, Len(p) + 1, Len(s)) ELSE s

\* the first line that starts with field, without the field, trimmed
extractJinaField(content, field) ==
    LET lines == Split(content, <<"\n">>)
        hits  == {i \in 1..Len(lines) : HasPrefix(lines[i], field)}
    IN  IF hits = {} THEN <<>>
        ELSE TrimSpace(TrimPrefix(lines[CHOOSE i \in hits : \A j \in hits : i <= j], field))

JinaContentStartOffByOne(i, line) ==
    \/ HasPrefix(line, <<"#">>)
    \/ i >= 4 /\ TrimSpace(line) # <<>> /\ ~Contains(line, <<":">>)

\* strings.HasPrefix(line, "#") || (i > 3 && TrimSpace(line) != "" && !Contains(line, ":"))
\* with i counted from 1 here (Go's i > 3 is the fifth line onwards)
JinaContentStart(i, line) ==
    \/ HasPrefix(line, <<"#">>)
    \/ i > 4 /\ TrimSpace(line) # <<>> /\ ~Contains(line, <<":">>)

JinaAfterMarkerUntrimmed(content, idx) ==
    SubSeq(content, idx + Len(MarkdownMarker), Len(content))

\* strings.TrimSpace(content[idx+len(marker):])
JinaAfterMarker(content, idx) ==
    TrimSpace(SubSeq(content, idx + Len(MarkdownMarker), Len(content)))

extractJinaMarkdown(content) ==
    LET idx == Index(content, MarkdownMarker)
    IN  IF idx = 0
        THEN LET lines == Split(content, <<"\n">>)
                 hits  == {i \in 1..Len(lines) : JinaContentStart(i, lines[i])}
             IN  IF hits = {} THEN content
                 ELSE Join(SubSeq(lines, CHOOSE i \in hits : \A j \in hits : i <= j,
                                  Len(lines)), <<"\n">>)
        ELSE JinaAfterMarker(content, idx)

\* for strings.HasPrefix(trimmed, "#") { trimmed = strings.TrimPrefix(trimmed, "#") }
RECURSIVE StripHeadingMarkers(_)
StripHeadingMarkers(trimmed) ==
    IF HasPrefix(trimmed, <<"#">>) THEN StripHeadingMarkers(TrimPrefix(trimmed, <<"#">>))
    ELSE trimmed

\* the body of stripBasicMarkdown's loop, for one line
StripLine(line) ==
    ReplaceAll(ReplaceAll(TrimSpace(StripHeadingMarkers(line)), <<"*", "*">>, <<>>),
               <<"_", "_">>, <<>>)

stripBasicMarkdown(md) ==
    LET lines == Split(md, <<"\n">>)
    IN  Join([i \in 1..Len(lines) |-> StripLine(lines[i])], <<"\n">>)

\* Extract, lines 86-97: markdownContent, with the whole body when it is empty
JinaMarkdownContent(content) ==
    IF extractJinaMarkdown(content) = <<>> THEN content ELSE extractJinaMarkdown(content)

\* Extract, lines 94-97: finalContent
JinaFinalContent(content, format) ==
    IF format = "text" THEN stripBasicMarkdown(JinaMarkdownContent(content))
    ELSE JinaMarkdownContent(content)

MaxBodyLines == 6

MaxMarkdownLen == 5

\* lines of a response without the marker: blank, text, a labeled field, a heading
PlainLines == {<<>>, <<"x">>, <<"k", ":", "v">>, <<"#", "H">>}

\* the characters stripBasicMarkdown tells apart
MarkdownChars == {"#", "*", "_", " ", "x", "\n"}

\* the texts of 1..n lines drawn from lines
TextsOfLines(lines, n) ==
    {Join(ls, <<"\n">>) : ls \in UNION {[1..k -> lines] : k \in 1..n}}

JinaParseInputs ==
    TextsOfLines(PlainLines, MaxBodyLines) \cup StringsUpTo(MarkdownChars, MaxMarkdownLen)

JinaParseIdle == [pc |-> "idle", content |-> <<>>, markdown |-> <<>>, text |-> <<>>]

\* markdownContent := extractJinaMarkdown(content), or content when that is empty
ParseJinaMarkdown ==
    /\ jp.pc = "body"
    /\ jp' = [jp EXCEPT !.pc = "markdown", !.markdown = JinaMarkdownContent(jp.content)]
    /\ UNCHANGED <<nl, proc, be, render, clean, wrap, run, call, fetch>>

\* finalContent = stripBasicMarkdown(markdownContent)
StripJinaMarkdown ==
    /\ jp.pc = "markdown"
    /\ jp' = [jp EXCEPT !.pc = "text", !.text = stripBasicMarkdown(jp.markdown)]
    /\ UNCHANGED <<nl, proc, be, render, clean, wrap, run, call, fetch>>

(***************************************************************************)
(* The remote backends: TavilyBackend.Extract and JinaBackend.Extract, as  *)
(* one request and the handling of its response.                           *)
(***************************************************************************)

\* http.StatusOK
StatusOK == 200

\* the statuses a server may answer with
HTTPStatuses == {200, 201, 204, 400, 401, 403, 429, 500}

URLs == {"https://a.example", "https://b.example"}

Formats == {"text", "markdown"}

\* a response body: its text (Jina), or what json.Unmarshal makes of it (Tavily)
Body(text, valid, results, failed) ==
    [text |-> text, valid |-> valid, results |-> results, failed |-> failed]

NoBody == Body(<<>>, FALSE, <<>>, <<>>)

NoResponse == [status |-> 0, body |-> NoBody]

\* fmt.Errorf(...): the message with the status code and the body it prints
Err(msg, code, body) == [msg |-> msg, code |-> code, body |-> body]

NoError == Err("", 0, NoBody)

ExtractResult(url, title, content) == [URL |-> url, Title |-> title, Content |-> content]

BackendIdle ==
    [pc |-> "idle", backend |-> "", APIKey |-> "", url |-> "", format |-> "",
     requests |-> 0, resp |-> NoResponse, result |-> Nil, err |-> NoError]

TavilyIsAvailableAlways(APIKey) == TRUE

\* func (t *TavilyBackend) IsAvailable() bool
TavilyIsAvailable(APIKey) == APIKey # ""

\* func (j *JinaBackend) IsAvailable() bool
JinaIsAvailable(APIKey) == TRUE

TavilyStatusErrorLax(resp) ==
    IF resp.status = 401 THEN Err("authentication failed", 0, resp.body)
    ELSE IF resp.status = 429 THEN Err("rate limited", 0, resp.body)
    ELSE Err("HTTP", resp.status, resp.body)

\* the switch on resp.StatusCode, entered when it is not http.StatusOK
TavilyStatusError(resp) ==
    IF resp.status \in {401, 403} THEN Err("authentication failed", 0, resp.body)
    ELSE IF resp.status = 429 THEN Err("rate limited", 0, resp.body)
    ELSE Err("HTTP", resp.status, resp.body)

JinaStatusError(resp) ==
    IF resp.status \in {401, 403} THEN Err("authentication error", 0, resp.body)
    ELSE IF resp.status = 429 THEN Err("rate limited", 0, NoBody)
    ELSE Err("HTTP", resp.status, resp.body)

TavilyContentAnyTitle(result, format) ==
    IF format = "markdown"
    THEN <<"#", " ">> \o result.title \o <<"\n", "\n">> \o result.raw_content
    ELSE result.raw_content

\* content = fmt.Sprintf("# %s\n\n%s", result.Title, content)
TavilyContent(result, format) ==
    IF format = "markdown" /\ result.title # <<>>
    THEN <<"#", " ">> \o result.title \o <<"\n", "\n">> \o result.raw_content
    ELSE result.raw_content

\* Extract after io.ReadAll: the result and the error it returns
TavilyOutcome(url, format, resp) ==
    IF resp.status # StatusOK
    THEN [result |-> Nil, err |-> TavilyStatusError(resp)]
    ELSE IF ~resp.body.valid
    THEN [result |-> Nil, err |-> Err("failed to parse response", 0, NoBody)]
    ELSE IF Len(resp.body.results) = 0
    THEN IF Len(resp.body.failed) > 0
         THEN [result |-> Nil, err |-> Err("extraction failed", 0, NoBody)]
         ELSE [result |-> Nil, err |-> Err("no results returned", 0, NoBody)]
    ELSE LET result == resp.body.results[1]
         IN  [result |-> ExtractResult(result.url, result.title,
                                       TavilyContent(result, format)),
              err |-> NoError]

JinaOutcome(url, format, resp) ==
    IF resp.status # StatusOK
    THEN [result |-> Nil, err |-> JinaStatusError(resp)]
    ELSE [result |-> ExtractResult(url, extractJinaField(resp.body.text, TitleField),
                                   JinaFinalContent(resp.body.text, format)),
          err |-> NoError]

MaxResults == 2

MaxFailed == 2

MaxResponseLines == 4

\* the raw_content Tavily holds for a URL
RawContentOf(url) == IF url = "https://a.example" THEN <<"a">> ELSE <<"b">>

TavilyResults ==
    {[url |-> u, title |-> t, raw_content |-> RawContentOf(u)] :
        u \in URLs, t \in {<<>>, <<"T">>}}

\* bodies that are JSON objects, and one that is not JSON
TavilyBodies ==
    {Body(<<>>, TRUE, rs, fs) :
        rs \in UNION {[1..k -> TavilyResults] : k \in 0..MaxResults},
        fs \in UNION {[1..k -> URLs] : k \in 0..MaxFailed}}
    \cup {Body(<<"n", "o">>, FALSE, <<>>, <<>>)}

TavilyResponses == {[status |-> s, body |-> b] : s \in HTTPStatuses, b \in TavilyBodies}

\* lines of a Jina response: blank, two title fields, the marker, a heading, text
ResponseLines ==
    {<<>>, TitleField \o <<" ", "T">>, TitleField \o <<"U">>, MarkdownMarker,
     <<"#", " ", "H">>, <<"x">>}

\* a successful response holds any lines, an error response at most one
JinaResponses ==
    {[status |-> StatusOK, body |-> Body(t, FALSE, <<>>, <<>>)] :
        t \in TextsOfLines(ResponseLines, MaxResponseLines)}
    \cup {[status |-> s, body |-> Body(t, FALSE, <<>>, <<>>)] :
            s \in HTTPStatuses \ {StatusOK}, t \in TextsOfLines(ResponseLines, 1)}

\* TavilyBackend.Extract up to client.Do: no request without an API key
TavilyExtract ==
    /\ be.pc = "start"
    /\ be.backend = "tavily"
    /\ IF ~TavilyIsAvailable(be.APIKey)
       THEN be' = [be EXCEPT !.pc = "done", !.err = Err("API key not configured", 0, NoBody)]
       ELSE be' = [be EXCEPT !.pc = "waiting", !.requests = @ + 1]
    /\ UNCHANGED <<nl, proc, jp, render, clean, wrap, run, call, fetch>>

\* JinaBackend.Extract up to client.Do
JinaExtract ==
    /\ be.pc = "start"
    /\ be.backend = "jina"
    /\ be' = [be EXCEPT !.pc = "waiting", !.requests = @ + 1]
    /\ UNCHANGED <<nl, proc, jp, render, clean, wrap, run, call, fetch>>

\* client.Do or io.ReadAll returns an error (no connection, timeout)
RequestFails ==
    /\ be.pc = "waiting"
    /\ be' = [be EXCEPT !.pc = "done", !.err = Err("request failed", 0, NoBody)]
    /\ UNCHANGED <<nl, proc, jp, render, clean, wrap, run, call, fetch>>

\* TavilyBackend.Extract from the response on
TavilyResponse ==
    /\ be.pc = "waiting"
    /\ be.backend = "tavily"
    /\ \E resp \in TavilyResponses :
         LET out == TavilyOutcome(be.url, be.format, resp)
         IN  be' = [be EXCEPT !.pc = "done", !.resp = resp,
                              !.result = out.result, !.err = out.err]
    /\ UNCHANGED <<nl, proc, jp, render, clean, wrap, run, call, fetch>>

\* JinaBackend.Extract from the response on
JinaResponse ==
    /\ be.pc = "waiting"
    /\ be.backend = "jina"
    /\ \E resp \in JinaResponses :
         LET out == JinaOutcome(be.url, be.format, resp)
         IN  be' = [be EXCEPT !.pc = "done", !.resp = resp,
                              !.result = out.result, !.err = out.err]
    /\ UNCHANGED <<nl, proc, jp, render, clean, wrap, run, call, fetch>>

(***************************************************************************)
(* The Markdown renderer: ToMarkdown, convertToMarkdown and convertList,   *)
(* over the node tree goquery parses from the content HTML.                *)
(***************************************************************************)

\* html.Node: a text node (Type 3) or an element node (Type 1); attrs is a set
\* of <<name, value>> pairs
TextNode(data) ==
    [type |-> "text", tag |-> "", data |-> data, attrs |-> {}, children |-> <<>>]

Element(tag, attrs, children) ==
    [type |-> "element", tag |-> tag, data |-> <<>>, attrs |-> attrs, children |-> children]

\* s.Attr(name): exists
AttrExists(node, name) == \E a \in node.attrs : a[1] = name

\* s.AttrOr(name, default)
AttrOr(node, name, default) ==
    IF AttrExists(node, name) THEN (CHOOSE a \in node.attrs : a[1] = name)[2] ELSE default

\* s.Text(): the text of the node and of its descendants, as it stands
RECURSIVE NodeText(_)
NodeText(node) ==
    IF node.type = "text" THEN node.data
    ELSE Join([i \in 1..Len(node.children) |-> NodeText(node.children[i])], <<>>)

\* s.Find(...): the descendants of node with a tag in tags, in document order
RECURSIVE FindTags(_, _)
FindTags(node, tags) ==
    Join([i \in 1..Len(node.children) |->
            (IF node.children[i].type = "element" /\ node.children[i].tag \in tags
             THEN <<node.children[i]>> ELSE <<>>)
            \o FindTags(node.children[i], tags)], <<>>)

\* strings.Repeat
Repeat(s, count) == Join([i \in 1..count |-> s], <<>>)

\* fmt.Sprintf("%d", n) for the item numbers of a list
Decimal(n) ==
    LET digit(d) == <<"0", "1", "2", "3", "4", "5", "6", "7", "8", "9">>[d + 1]
    IN  IF n < 10 THEN <<digit(n)>> ELSE <<digit(n \div 10), digit(n % 10)>>

\* level := int(tagName[1] - '0')
HeadingLevel(tagName) ==
    CASE tagName = "h1" -> 1 [] tagName = "h2" -> 2 [] tagName = "h3" -> 3
      [] tagName = "h4" -> 4 [] tagName = "h5" -> 5 [] tagName = "h6" -> 6

\* the character U+0060, which a TLA+ string cannot hold
Backquote == "<U+0060>"

\* the blockquote case: every non-blank line of the text, trimmed, after "> "
QuoteLines(text) ==
    LET lines == Split(text, <<"\n">>)
    IN  Join([i \in 1..Len(lines) |->
                IF TrimSpace(lines[i]) # <<>>
                THEN <<">", " ">> \o TrimSpace(lines[i]) \o <<"\n">> ELSE <<>>], <<>>)
        \o <<"\n">>

RECURSIVE convertList(_, _, _)
convertList(sel, ordered, depth) ==
    LET prefix == Repeat(<<" ", " ">>, depth)
        items  == FindTags(sel, {"li"})
        item(i) ==
            LET s      == items[i]
                marker == IF ordered THEN Decimal(i) \o <<".", " ">> ELSE <<"-", " ">>
                nested == FindTags(s, {"ul", "ol"})
            IN  prefix \o marker \o TrimSpace(NodeText(s)) \o <<"\n">>
                \o Join([j \in 1..Len(nested) |->
                           convertList(nested[j], nested[j].tag = "ol", depth + 1)], <<>>)
    IN  Join([i \in 1..Len(items) |-> item(i)], <<>>) \o <<"\n">>

\* the text node case: text := strings.TrimSpace(node.Data); written when not empty
TextNodeMarkdown(node) == TrimSpace(node.data)

\* the case "a"
LinkMarkdown(s, preserveLinks) ==
    IF preserveLinks /\ AttrExists(s, "href") /\ AttrOr(s, "href", <<>>) # <<>>
    THEN <<"[">> \o NodeText(s) \o <<"]", "(">> \o AttrOr(s, "href", <<>>) \o <<")">>
    ELSE NodeText(s)

RECURSIVE convertToMarkdown(_, _)
\* one node of sel.Contents()
convertNode(s, preserveLinks) ==
    IF s.type = "text" THEN TextNodeMarkdown(s)
    ELSE IF s.type # "element" THEN <<>>
    ELSE CASE s.tag \in {"h1", "h2", "h3", "h4", "h5", "h6"} ->
                Repeat(<<"#">>, HeadingLevel(s.tag)) \o <<" ">> \o TrimSpace(NodeText(s))
                \o <<"\n", "\n">>
           [] s.tag = "p" ->
                LET text == TrimSpace(convertToMarkdown(s, preserveLinks))
                IN  IF text # <<>> THEN text \o <<"\n", "\n">> ELSE <<>>
           [] s.tag = "br" -> <<"\n">>
           [] s.tag = "a" -> LinkMarkdown(s, preserveLinks)
           [] s.tag \in {"strong", "b"} -> <<"*", "*">> \o NodeText(s) \o <<"*", "*">>
           [] s.tag \in {"em", "i"} -> <<"*">> \o NodeText(s) \o <<"*">>
           [] s.tag = "code" -> <<Backquote>> \o NodeText(s) \o <<Backquote>>
           [] s.tag = "pre" ->
                <<Backquote, Backquote, Backquote, "\n">> \o NodeText(s) \o <<"\n", Backquote, Backquote, Backquote, "\n", "\n">>
           [] s.tag = "blockquote" -> QuoteLines(NodeText(s))
           [] s.tag \in {"ul", "ol"} -> convertList(s, s.tag = "ol", 0)
           [] s.tag = "img" ->
                IF AttrExists(s, "src")
                THEN <<"!", "[">> \o AttrOr(s, "alt", <<>>) \o <<"]", "(">>
                     \o AttrOr(s, "src", <<>>) \o <<")", "\n", "\n">>
                ELSE <<>>
           [] OTHER -> convertToMarkdown(s, preserveLinks)

\* what convertToMarkdown writes to md for the children of sel
convertToMarkdown(sel, preserveLinks) ==
    Join([i \in 1..Len(sel.children) |-> convertNode(sel.children[i], preserveLinks)], <<>>)

\* strings.Title on a metadata key: the first letter in upper case
TitleCase(key) ==
    LET lower == <<"a", "b", "c", "d", "e", "f", "g", "h", "i", "j", "k", "l", "m",
                   "n", "o", "p", "q", "r", "s", "t", "u", "v", "w", "x", "y", "z">>
        upper == <<"A", "B", "C", "D", "E", "F", "G", "H", "I", "J", "K", "L", "M",
                   "N", "O", "P", "Q", "R", "S", "T", "U", "V", "W", "X", "Y", "Z">>
        up(c) == IF \E i \in 1..26 : lower[i] = c
                 THEN upper[CHOOSE i \in 1..26 : lower[i] = c] ELSE c
    IN  IF key = <<>> THEN key ELSE <<up(key[1])>> \o Tail(key)

\* fmt.Sprintf("**%s:** %s\n\n", label, value)
MetadataLine(label, value) ==
    <<"*", "*">> \o label \o <<":", "*", "*", " ">> \o value \o <<"\n", "\n">>

\* the orders in which range may visit the entries of a map
MapOrders(entries) ==
    {order \in [1..Cardinality(entries) -> entries] :
        \A i, j \in 1..Cardinality(entries) : i # j => order[i] # order[j]}

\* ToMarkdown, the title and the metadata block; order is the order in which
\* range visits content.Metadata
MarkdownHeader(content, includeMetadata, order) ==
    (IF content.Title # <<>> THEN <<"#", " ">> \o content.Title \o <<"\n", "\n">> ELSE <<>>)
    \o (IF includeMetadata
        THEN (IF content.Author # <<>>
              THEN MetadataLine(<<"A", "u", "t", "h", "o", "r">>, content.Author) ELSE <<>>)
             \o (IF content.Excerpt # <<>>
                 THEN MetadataLine(<<"S", "u", "m", "m", "a", "r", "y">>, content.Excerpt)
                 ELSE <<>>)
             \o Join([i \in 1..Len(order) |->
                        IF order[i][1] # <<"t", "i", "t", "l", "e">>
                        THEN MetadataLine(TitleCase(order[i][1]), order[i][2]) ELSE <<>>],
                     <<>>)
        ELSE <<>>)

\* content.Content is the HTML text: Blank says that it is empty or white space,
\* Body is the body element goquery parses from it (parsing a string never fails)
ToMarkdown(content, includeMetadata, preserveLinks, order) ==
    LET header == MarkdownHeader(content, includeMetadata, order)
    IN  IF content.TextContent # <<>> /\ content.Content.Blank
        THEN header \o CleanNewlines(content.TextContent)
        ELSE LET result == header \o convertToMarkdown(content.Content.Body, preserveLinks)
             IN  IF TrimSpace(result) = TrimSpace(<<"#", " ">> \o content.Title)
                 THEN result \o CleanNewlines(content.TextContent)
                 ELSE result

MaxNodes == 2

\* "https://x.com"
LinkTarget == <<"h", "t", "t", "p", "s", ":", "/", "/", "x", ".", "c", "o", "m">>

\* <h1>Title</h1>
H1Title == Element("h1", {}, <<TextNode(<<"T", "i", "t", "l", "e">>)>>)

\* <p>Hello <a href="https://x.com">link</a>.</p>
PHelloLink ==
    Element("p", {},
            <<TextNode(<<"H", "e", "l", "l", "o", " ">>),
              Element("a", {<<"href", LinkTarget>>}, <<TextNode(<<"l", "i", "n", "k">>)>>),
              TextNode(<<".">>)>>)

\* <p> </p>
PBlank == Element("p", {}, <<TextNode(<<" ">>)>>)

\* <p>a <strong>b</strong><br/><em>c</em> <code>d</code></p>
PInline ==
    Element("p", {},
            <<TextNode(<<"a", " ">>), Element("strong", {}, <<TextNode(<<"b">>)>>),
              Element("br", {}, <<>>), Element("em", {}, <<TextNode(<<"c">>)>>),
              TextNode(<<" ">>), Element("code", {}, <<TextNode(<<"d">>)>>)>>)

\* <div><span>x</span><a>y</a></div>
DivSpan ==
    Element("div", {},
            <<Element("span", {}, <<TextNode(<<"x">>)>>),
              Element("a", {}, <<TextNode(<<"y">>)>>)>>)

\* <pre>c</pre>
PreCode == Element("pre", {}, <<TextNode(<<"c">>)>>)

\* <blockquote>q\n r</blockquote>
Quote == Element("blockquote", {}, <<TextNode(<<"q", "\n", " ", "r">>)>>)

\* <img src="s" alt="i"/>
Img == Element("img", {<<"src", <<"s">>>>, <<"alt", <<"i">>>>}, <<>>)

\* <img alt="i"/>
ImgNoSrc == Element("img", {<<"alt", <<"i">>>>}, <<>>)

\* <ul><li>a</li><li>b<ol><li>c</li></ol></li></ul>
NestedList ==
    Element("ul", {},
            <<Element("li", {}, <<TextNode(<<"a">>)>>),
              Element("li", {},
                      <<TextNode(<<"b">>),
                        Element("ol", {}, <<Element("li", {}, <<TextNode(<<"c">>)>>)>>)>>)>>)

\* <ol><li>a</li><li>b</li></ol>
FlatList ==
    Element("ol", {},
            <<Element("li", {}, <<TextNode(<<"a">>)>>),
              Element("li", {}, <<TextNode(<<"b">>)>>)>>)

NodeSamples ==
    {FlatList, H1Title, PHelloLink, PBlank, PInline, DivSpan, PreCode, Quote, Img, ImgNoSrc,
     NestedList, TextNode(<<" ">>), TextNode(<<"w", " ">>)}

\* content.Content: blank HTML, HTML whose body is empty (a lone <script>), and
\* bodies of 1..MaxNodes nodes
ContentSamples ==
    {[Blank |-> b, Body |-> Element("body", {}, <<>>)] : b \in BOOLEAN}
    \cup {[Blank |-> FALSE, Body |-> Element("body", {}, ns)] :
            ns \in UNION {[1..k -> NodeSamples] : k \in 1..MaxNodes}}

DateEntry == <<<<"d", "a", "t", "e">>, <<"1">>>>

UrlEntry == <<<<"u", "r", "l">>, <<"u">>>>

\* title, author, excerpt and metadata of a ProcessedContent
HeaderSamples ==
    {[Title |-> <<>>, Author |-> <<>>, Excerpt |-> <<>>, Metadata |-> {}],
     [Title |-> <<"T">>, Author |-> <<>>, Excerpt |-> <<>>, Metadata |-> {}],
     [Title |-> <<"T">>, Author |-> <<"A">>, Excerpt |-> <<"E">>,
      Metadata |-> {DateEntry, UrlEntry, <<<<"t", "i", "t", "l", "e">>, <<"T">>>>}],
     [Title |-> <<>>, Author |-> <<>>, Excerpt |-> <<>>, Metadata |-> {DateEntry, UrlEntry}]}

ProcessedContents ==
    {[Title |-> h.Title, Author |-> h.Author, Excerpt |-> h.Excerpt,
      Metadata |-> h.Metadata, Content |-> c, TextContent |-> t] :
        h \in HeaderSamples, c \in ContentSamples, t \in {<<>>, ParagraphText}}

MarkdownIdle ==
    [pc |-> "idle", content |-> Nil, includeMetadata |-> FALSE, preserveLinks |-> FALSE,
     out |-> <<>>, out2 |-> <<>>]

\* content = contentProcessor.ToMarkdown(processed, includeMetadata, true)
RenderMarkdown ==
    /\ render.pc = "content"
    /\ \E order \in MapOrders(render.content.Metadata) :
         render' = [render EXCEPT
                      !.pc = "rendered",
                      !.out = ToMarkdown(render.content, render.includeMetadata,
                                         render.preserveLinks, order)]
    /\ UNCHANGED <<nl, proc, be, jp, clean, wrap, run, call, fetch>>

\* ToMarkdown called once more with the same arguments
RenderMarkdownAgain ==
    /\ render.pc = "rendered"
    /\ \E order \in MapOrders(render.content.Metadata) :
         render' = [render EXCEPT
                      !.pc = "rendered again",
                      !.out2 = ToMarkdown(render.content, render.includeMetadata,
                                          render.preserveLinks, order)]
    /\ UNCHANGED <<nl, proc, be, jp, clean, wrap, run, call, fetch>>

(***************************************************************************)
(* The HTML cleaner and the ad remover: cleanHTML, removeHTMLComments and  *)
(* removeAds, over the document goquery parses from the content HTML.      *)
(***************************************************************************)

\* html.Node of Type CommentNode
CommentNode(data) ==
    [type |-> "comment", tag |-> "", data |-> data, attrs |-> {}, children |-> <<>>]

\* html.Node of Type DocumentNode, the root goquery selects from
Document(children) ==
    [type |-> "document", tag |-> "", data |-> <<>>, attrs |-> {}, children |-> children]

\* the length of the longest prefix of nodes that are in accepted
PrefixLen(nodes, accepted) ==
    CHOOSE k \in 0..Len(nodes) :
        /\ \A i \in 1..k : nodes[i] \in accepted
        /\ k = Len(nodes) \/ nodes[k + 1] \notin accepted

\* goquery.NewDocumentFromReader on the markup of nodes: comments ahead of the
\* first tag stay children of the document, script/style/noscript (and comments
\* among them) ahead of the first body content go to head, the rest to body
NewDocumentFromReader(nodes) ==
    LET all      == {nodes[i] : i \in 1..Len(nodes)}
        comments == {n \in all : n.type = "comment"}
        inHead   == {n \in all : n.type = "comment"
                                 \/ (n.type = "element"
                                     /\ n.tag \in {"script", "style", "noscript"})}
        k    == PrefixLen(nodes, comments)
        rest == SubSeq(nodes, k + 1, Len(nodes))
        h    == PrefixLen(rest, inHead)
    IN  Document(SubSeq(nodes, 1, k)
                 \o <<Element("html", {},
                              <<Element("head", {}, SubSeq(rest, 1, h)),
                                Element("body", {}, SubSeq(rest, h + 1, Len(rest)))>>)>>)

\* adjacent text nodes run together, as parsing their markup gives one text node
RECURSIVE MergeText(_)
MergeText(nodes) ==
    IF Len(nodes) < 2 THEN nodes
    ELSE IF nodes[1].type = "text" /\ nodes[2].type = "text"
         THEN MergeText(<<TextNode(nodes[1].data \o nodes[2].data)>>
                        \o SubSeq(nodes, 3, Len(nodes)))
         ELSE <<nodes[1]>> \o MergeText(Tail(nodes))

\* doc.Find("script, style, noscript").Remove()
RECURSIVE RemoveTags(_, _)
RemoveTags(node, tags) ==
    [node EXCEPT !.children =
        Join([i \in 1..Len(node.children) |->
                IF node.children[i].type = "element" /\ node.children[i].tag \in tags
                THEN <<>> ELSE <<RemoveTags(node.children[i], tags)>>], <<>>)]

\* s.Html(), removeHTMLComments, s.SetHtml on one element: its inner markup
\* without the "<!--" ... "-->" stretches, parsed again
RECURSIVE SetHtmlWithoutComments(_)
SetHtmlWithoutComments(s) ==
    [s EXCEPT !.children =
        MergeText(Join([i \in 1..Len(s.children) |->
                          IF s.children[i].type = "comment" THEN <<>>
                          ELSE <<SetHtmlWithoutComments(s.children[i])>>], <<>>))]

\* doc.Find("*").Each(... s.SetHtml(cleanedHTML)): the first element found is
\* html, whose children SetHtml replaces; the elements found after it are the
\* replaced ones, no longer in the document.  The children of the document
\* itself are not elements and are left alone.
RemoveCommentsEach(doc) ==
    [doc EXCEPT !.children =
        [i \in 1..Len(doc.children) |->
            IF doc.children[i].type = "element"
            THEN SetHtmlWithoutComments(doc.children[i]) ELSE doc.children[i]]]

\* doc.Find("p, div").Each: removed when strings.TrimSpace(s.Text()) == ""
RECURSIVE RemoveEmptyBlocks(_)
RemoveEmptyBlocks(node) ==
    [node EXCEPT !.children =
        Join([i \in 1..Len(node.children) |->
                LET s == node.children[i]
                IN  IF s.type = "element" /\ s.tag \in {"p", "div"}
                       /\ TrimSpace(NodeText(s)) = <<>>
                    THEN <<>> ELSE <<RemoveEmptyBlocks(s)>>], <<>>)]

\* cleanHTML, on the parsed document
CleanDocument(doc) ==
    RemoveEmptyBlocks(RemoveCommentsEach(RemoveTags(doc, {"script", "style", "noscript"})))

AttrOrder == <<"id", "class", "href", "src", "alt">>

\* html.Render of the attributes of a start tag
RenderAttrs(node) ==
    Join([i \in 1..Len(AttrOrder) |->
            IF AttrExists(node, AttrOrder[i])
            THEN <<" ", AttrOrder[i], "=", "\"">> \o AttrOr(node, AttrOrder[i], <<>>)
                 \o <<"\"">>
            ELSE <<>>], <<>>)

\* html.Render of one node; a tag name is one token of the markup
RECURSIVE Render(_)
Render(node) ==
    CASE node.type = "text" -> node.data
      [] node.type = "comment" -> <<"<!--">> \o node.data \o <<"-->">>
      [] node.type = "element" /\ node.tag \in {"img", "br"} ->
            <<"<", node.tag>> \o RenderAttrs(node) \o <<"/>">>
      [] node.type = "element" ->
            <<"<", node.tag>> \o RenderAttrs(node) \o <<">">>
            \o Join([i \in 1..Len(node.children) |-> Render(node.children[i])], <<>>)
            \o <<"</", node.tag, ">">>
      [] OTHER -> Join([i \in 1..Len(node.children) |-> Render(node.children[i])], <<>>)

\* doc.Html(): the markup of the children of the document
DocHtml(doc) == Render(doc)

\* goquery.NewDocumentFromReader on the markup cleanHTML returned: the same
\* tree, with text that the removals left side by side parsed as one text node
RECURSIVE Reparse(_)
Reparse(node) ==
    [node EXCEPT !.children =
        MergeText([i \in 1..Len(node.children) |-> Reparse(node.children[i])])]

\* strings.ToLower
ToLower(s) ==
    LET lower == <<"a", "b", "c", "d", "e", "f", "g", "h", "i", "j", "k", "l", "m",
                   "n", "o", "p", "q", "r", "s", "t", "u", "v", "w", "x", "y", "z">>
        upper == <<"A", "B", "C", "D", "E", "F", "G", "H", "I", "J", "K", "L", "M",
                   "N", "O", "P", "Q", "R", "S", "T", "U", "V", "W", "X", "Y", "Z">>
        low(c) == IF \E i \in 1..26 : upper[i] = c
                  THEN lower[CHOOSE i \in 1..26 : upper[i] = c] ELSE c
    IN  [i \in 1..Len(s) |-> low(s[i])]

\* strings.Fields of a class attribute
Fields(s) ==
    LET spaced == [i \in 1..Len(s) |-> IF s[i] \in WhiteSpace THEN " " ELSE s[i]]
    IN  SelectSeq(Split(spaced, <<" ">>), LAMBDA f : f # <<>>)

\* the selector .name
HasClass(node, name) ==
    \E i \in 1..Len(Fields(AttrOr(node, "class", <<>>))) :
        Fields(AttrOr(node, "class", <<>>))[i] = name

\* the selector [attr*='part']
AttrContains(node, attr, part) ==
    AttrExists(node, attr) /\ Contains(AttrOr(node, attr, <<>>), part)

\* adSelectors
AdParts ==
    {<<"a", "d">>, <<"a", "d", "v", "e", "r", "t", "i", "s", "e", "m", "e", "n", "t">>, <<"s", "p", "o", "n", "s", "o", "r">>, <<"p", "r", "o", "m", "o">>}

AdClasses ==
    {<<"g", "o", "o", "g", "l", "e", "-", "a", "d", "s">>, <<"a", "d", "s", "y", "s", "t", "e", "m">>, <<"a", "d", "-", "c", "o", "n", "t", "a", "i", "n", "e", "r">>, <<"a", "d", "v", "e", "r", "t", "i", "s", "e", "m", "e", "n", "t">>, <<"s", "p", "o", "n", "s", "o", "r", "e", "d">>, <<"b", "a", "n", "n", "e", "r", "-", "a", "d">>}

\* an element some selector of adSelectors finds
MatchesAdSelector(node) ==
    \/ \E part \in AdParts : AttrContains(node, "id", part) \/ AttrContains(node, "class", part)
    \/ \E name \in AdClasses : HasClass(node, name)

\* for _, selector := range adSelectors { doc.Find(selector).Remove() }
RECURSIVE RemoveAdSelected(_)
RemoveAdSelected(node) ==
    [node EXCEPT !.children =
        Join([i \in 1..Len(node.children) |->
                IF node.children[i].type = "element" /\ MatchesAdSelector(node.children[i])
                THEN <<>> ELSE <<RemoveAdSelected(node.children[i])>>], <<>>)]

AdTextLimit == 50

\* the test on the text of an element
IsAdText(text) ==
    \/ Contains(ToLower(text), <<"a", "d", "v", "e", "r", "t", "i", "s", "e", "m", "e", "n", "t">>)
    \/ Contains(ToLower(text), <<"s", "p", "o", "n", "s", "o", "r", "e", "d", " ", "c", "o", "n", "t", "e", "n", "t">>)
    \/ (Contains(ToLower(text), <<"a", "d">>) /\ Len(TrimSpace(text)) < AdTextLimit)

\* doc.Find("*").Each(... s.Remove()): the elements are visited in document
\* order, an element before its descendants, so each is tested on its full text
RECURSIVE RemoveAdText(_)
RemoveAdText(node) ==
    [node EXCEPT !.children =
        Join([i \in 1..Len(node.children) |->
                IF node.children[i].type = "element" /\ IsAdText(NodeText(node.children[i]))
                THEN <<>> ELSE <<RemoveAdText(node.children[i])>>], <<>>)]

\* removeAds, on the parsed document
RemoveAdsDocument(doc) == RemoveAdText(RemoveAdSelected(doc))

MaxCleanNodes == 2

\* "This is my advisor's office"
AdvisorText == <<"T", "h", "i", "s", " ", "i", "s", " ", "m", "y", " ", "a", "d", "v", "i", "s", "o", "r", "'", "s", " ", "o", "f", "f", "i", "c", "e">>

\* <p>This is my advisor's office</p>
AdvisorPara == Element("p", {}, <<TextNode(AdvisorText)>>)

\* "The quick brown fox jumps over the lazy dog by the river"
LongText == <<"T", "h", "e", " ", "q", "u", "i", "c", "k", " ", "b", "r", "o", "w", "n", " ", "f", "o", "x", " ", "j", "u", "m", "p", "s", " ", "o", "v", "e", "r", " ", "t", "h", "e", " ", "l", "a", "z", "y", " ", "d", "o", "g", " ", "b", "y", " ", "t", "h", "e", " ", "r", "i", "v", "e", "r">>

\* <p>The quick brown fox ...</p>
LongPara == Element("p", {}, <<TextNode(LongText)>>)

\* <p>Sponsored content: the quick brown fox ...</p>
SponsoredPara ==
    Element("p", {}, <<TextNode(<<"S", "p", "o", "n", "s", "o", "r", "e", "d", " ", "c", "o", "n", "t", "e", "n", "t", ":", " ">> \o LongText)>>)

\* <p class="promo box">The quick brown fox ...</p>
PromoPara ==
    Element("p", {<<"class", <<"p", "r", "o", "m", "o", " ", "b", "o", "x">>>>}, <<TextNode(LongText)>>)

\* <div id="header">The quick brown fox ...</div>
HeaderDiv ==
    Element("div", {<<"id", <<"h", "e", "a", "d", "e", "r">>>>}, <<TextNode(LongText)>>)

\* <script>x</script>
ScriptNode == Element("script", {}, <<TextNode(<<"x">>)>>)

\* <noscript>n</noscript>
NoscriptNode == Element("noscript", {}, <<TextNode(<<"n">>)>>)

\* <div><p> </p></div>
DivOfBlank == Element("div", {}, <<PBlank>>)

\* <div><img src="s" alt="i"/></div>
DivOfImg == Element("div", {}, <<Img>>)

\* <p><!--c--><script>x</script> </p>
PCommentScript ==
    Element("p", {}, <<CommentNode(<<"c">>), ScriptNode, TextNode(<<" ">>)>>)

\* <section>a<!--c-->b<p></p>c</section>
SectionMixed ==
    Element("section", {},
            <<TextNode(<<"a">>), CommentNode(<<"c">>), TextNode(<<"b">>),
              Element("p", {}, <<>>), TextNode(<<"c">>)>>)

CleanNodeSamples ==
    {CommentNode(<<"c">>), ScriptNode, NoscriptNode, PBlank, DivOfBlank, DivOfImg,
     PCommentScript, SectionMixed, TextNode(<<"t">>), AdvisorPara, LongPara,
     SponsoredPara, PromoPara, HeaderDiv}

\* the markup of a content HTML, as the nodes it is written of
ContentMarkups == UNION {[1..k -> CleanNodeSamples] : k \in 0..MaxCleanNodes}

CleanIdle ==
    [pc |-> "idle", content |-> <<>>, doc |-> Nil, out |-> <<>>, out2 |-> <<>>]

\* result.Content = cp.cleanHTML(result.Content)
CleanHTML ==
    /\ clean.pc = "content"
    /\ LET doc == CleanDocument(NewDocumentFromReader(clean.content))
       IN  clean' = [clean EXCEPT !.pc = "cleaned", !.doc = doc, !.out = DocHtml(doc)]
    /\ UNCHANGED <<nl, proc, be, jp, render, wrap, run, call, fetch>>

\* cleanHTML on the markup cleanHTML returned
CleanHTMLAgain ==
    /\ clean.pc = "cleaned"
    /\ LET doc == CleanDocument(Reparse(clean.doc))
       IN  clean' = [clean EXCEPT !.pc = "recleaned", !.doc = doc, !.out2 = DocHtml(doc)]
    /\ UNCHANGED <<nl, proc, be, jp, render, wrap, run, call, fetch>>

\* result.Content = cp.removeAds(result.Content)
RemoveAds ==
    /\ clean.pc = "content"
    /\ LET doc == RemoveAdsDocument(NewDocumentFromReader(clean.content))
       IN  clean' = [clean EXCEPT !.pc = "adfree", !.doc = doc, !.out = DocHtml(doc)]
    /\ UNCHANGED <<nl, proc, be, jp, render, wrap, run, call, fetch>>

(***************************************************************************)
(* ContentProcessor.wrapText                                               *)
(***************************************************************************)

WordFitsStrict(currentLine, word, lineWidth) ==
    Len(currentLine) + 1 + Len(word) < lineWidth

\* if len(currentLine)+1+len(word) <= lineWidth
WordFits(currentLine, word, lineWidth) ==
    Len(currentLine) + 1 + Len(word) <= lineWidth

\* the loop over words[1:], with what it writes to result and the last line
RECURSIVE FillLines(_, _, _)
FillLines(words, currentLine, lineWidth) ==
    IF words = <<>> THEN currentLine
    ELSE IF WordFits(currentLine, words[1], lineWidth)
         THEN FillLines(Tail(words), currentLine \o <<" ">> \o words[1], lineWidth)
         ELSE currentLine \o <<"\n">> \o FillLines(Tail(words), words[1], lineWidth)

wrapText(text, lineWidth) ==
    IF lineWidth <= 0 THEN text
    ELSE LET paragraphs == Split(text, <<"\n", "\n">>)
         IN  Join([i \in 1..Len(paragraphs) |->
                     LET words == Fields(paragraphs[i])
                     IN  IF Len(words) = 0 THEN <<>>
                         ELSE FillLines(Tail(words), words[1], lineWidth)],
                  <<"\n", "\n">>)

MaxWrapLen == 7

MaxLineWidth == 4

WrapChars == {"a", " ", "\n"}

WrapIdle == [pc |-> "idle", text |-> <<>>, lineWidth |-> 0, out |-> <<>>]

\* return cp.wrapText(text, lineWidth)
WrapText ==
    /\ wrap.pc = "text"
    /\ wrap' = [wrap EXCEPT !.pc = "wrapped", !.out = wrapText(wrap.text, wrap.lineWidth)]
    /\ UNCHANGED <<nl, proc, be, jp, render, clean, run, call, fetch>>

(***************************************************************************)
(* The command: run, collectURLs, processURL and urlToFilename             *)
(* (cmd/scrpr/main.go).  What a URL's fetch or extraction comes to is the   *)
(* environment's choice.                                                   *)
(***************************************************************************)

ExitSuccess == 0

ExitNetworkError == 1

ExitProcessError == 2

ExitInvalidInput == 3

ExitConfigError == 4

ExitFileIOError == 5

ExitPartialError == 6

\* the exit code of a run that has not returned
Running == -1

\* isValidURL
isValidURL(url) ==
    \/ HasPrefix(url, <<"h", "t", "t", "p", ":", "/", "/">>)
    \/ HasPrefix(url, <<"h", "t", "t", "p", "s", ":", "/", "/">>)
    \/ HasPrefix(url, <<"f", "i", "l", "e", ":", "/", "/">>)

\* collectURLs: the arguments, then the lines of the file, then the lines of
\* stdin when there are no arguments and no file; trimmed, the valid ones kept
collectURLs(args, file, stdin) ==
    LET urls == args \o (IF file.given THEN file.lines ELSE <<>>)
                \o (IF Len(args) = 0 /\ ~file.given THEN stdin ELSE <<>>)
    IN  SelectSeq([i \in 1..Len(urls) |-> TrimSpace(urls[i])],
                  LAMBDA url : url # <<>> /\ isValidURL(url))

\* strings.TrimRight(name, "_")
TrimRightUnderscores(name) ==
    LET keep == {i \in 1..Len(name) : name[i] # "_"}
    IN  IF keep = {} THEN <<>>
        ELSE SubSeq(name, 1, CHOOSE i \in keep : \A j \in keep : i >= j)

MaxFilenameLen == 200

\* urlToFilename
urlToFilename(rawURL, format) ==
    LET stripped == TrimPrefix(TrimPrefix(rawURL, <<"h", "t", "t", "p", "s", ":", "/", "/">>), <<"h", "t", "t", "p", ":", "/", "/">>)
        replaced == [i \in 1..Len(stripped) |->
                        IF stripped[i] \in {"/", "?", "&", "=", ":", "#", "%"}
                        THEN "_" ELSE stripped[i]]
        trimmed  == TrimRightUnderscores(replaced)
        name     == IF Len(trimmed) > MaxFilenameLen
                    THEN SubSeq(trimmed, 1, MaxFilenameLen) ELSE trimmed
    IN  name \o (IF format = "markdown" THEN <<".", "m", "d">> ELSE <<".", "t", "x", "t">>)

\* the errors processURLLocal returns: the fetch failed (transport or HTTP
\* status), or Process rejected the page
LocalErrors ==
    {[kind |-> "network", sent |-> TRUE,
      msg |-> <<"f", "a", "i", "l", "e", "d", " ", "t", "o", " ", "f", "e", "t", "c", "h", " ", "c", "o", "n", "t", "e", "n", "t", ":", " ", "f", "a", "i", "l", "e", "d", " ", "t", "o", " ", "f", "e", "t", "c", "h", " ", "U", "R", "L", ":", " ", "d", "i", "a", "l", " ", "t", "c", "p", ":", " ", "n", "o", " ", "s", "u", "c", "h", " ", "h", "o", "s", "t">>],
     [kind |-> "network", sent |-> TRUE,
      msg |-> <<"f", "a", "i", "l", "e", "d", " ", "t", "o", " ", "f", "e", "t", "c", "h", " ", "c", "o", "n", "t", "e", "n", "t", ":", " ", "H", "T", "T", "P", " ", "e", "r", "r", "o", "r", ":", " ", "4", "0", "4", " ", "4", "0", "4", " ", "N", "o", "t", " ", "F", "o", "u", "n", "d">>],
     [kind |-> "process", sent |-> TRUE,
      msg |-> <<"f", "a", "i", "l", "e", "d", " ", "t", "o", " ", "p", "r", "o", "c", "e", "s", "s", " ", "c", "o", "n", "t", "e", "n", "t", ":", " ", "c", "o", "n", "t", "e", "n", "t", " ", "t", "o", "o", " ", "s", "h", "o", "r", "t", ":", " ", "5", " ", "c", "h", "a", "r", "a", "c", "t", "e", "r", "s", " ", "(", "m", "i", "n", "i", "m", "u", "m", ":", " ", "1", "0", "0", ")">>]}

TavilyKeyError ==
    [kind |-> "process", sent |-> FALSE,
      msg |-> <<"t", "a", "v", "i", "l", "y", ":", " ", "A", "P", "I", " ", "k", "e", "y", " ", "n", "o", "t", " ", "c", "o", "n", "f", "i", "g", "u", "r", "e", "d">>]

\* the errors processURLBackend returns from TavilyBackend.Extract
TavilyErrors ==
    {[kind |-> "network", sent |-> TRUE,
      msg |-> <<"e", "x", "t", "r", "a", "c", "t", "i", "o", "n", " ", "f", "a", "i", "l", "e", "d", ":", " ", "t", "a", "v", "i", "l", "y", ":", " ", "r", "e", "q", "u", "e", "s", "t", " ", "f", "a", "i", "l", "e", "d", ":", " ", "d", "i", "a", "l", " ", "t", "c", "p", ":", " ", "n", "o", " ", "s", "u", "c", "h", " ", "h", "o", "s", "t">>],
     [kind |-> "network", sent |-> TRUE,
      msg |-> <<"e", "x", "t", "r", "a", "c", "t", "i", "o", "n", " ", "f", "a", "i", "l", "e", "d", ":", " ", "t", "a", "v", "i", "l", "y", ":", " ", "r", "e", "q", "u", "e", "s", "t", " ", "f", "a", "i", "l", "e", "d", ":", " ", "c", "o", "n", "t", "e", "x", "t", " ", "d", "e", "a", "d", "l", "i", "n", "e", " ", "e", "x", "c", "e", "e", "d", "e", "d">>],
     [kind |-> "process", sent |-> TRUE,
      msg |-> <<"e", "x", "t", "r", "a", "c", "t", "i", "o", "n", " ", "f", "a", "i", "l", "e", "d", ":", " ", "t", "a", "v", "i", "l", "y", ":", " ", "H", "T", "T", "P", " ", "5", "0", "0", ":", " ", "o", "o", "p", "s">>],
     [kind |-> "process", sent |-> TRUE,
      msg |-> <<"e", "x", "t", "r", "a", "c", "t", "i", "o", "n", " ", "f", "a", "i", "l", "e", "d", ":", " ", "t", "a", "v", "i", "l", "y", ":", " ", "n", "o", " ", "r", "e", "s", "u", "l", "t", "s", " ", "r", "e", "t", "u", "r", "n", "e", "d">>]}

\* the errors processURLBackend returns from JinaBackend.Extract
JinaErrors ==
    {[kind |-> "network", sent |-> TRUE,
      msg |-> <<"e", "x", "t", "r", "a", "c", "t", "i", "o", "n", " ", "f", "a", "i", "l", "e", "d", ":", " ", "j", "i", "n", "a", ":", " ", "r", "e", "q", "u", "e", "s", "t", " ", "f", "a", "i", "l", "e", "d", ":", " ", "d", "i", "a", "l", " ", "t", "c", "p", ":", " ", "n", "o", " ", "s", "u", "c", "h", " ", "h", "o", "s", "t">>],
     [kind |-> "network", sent |-> TRUE,
      msg |-> <<"e", "x", "t", "r", "a", "c", "t", "i", "o", "n", " ", "f", "a", "i", "l", "e", "d", ":", " ", "j", "i", "n", "a", ":", " ", "r", "e", "q", "u", "e", "s", "t", " ", "f", "a", "i", "l", "e", "d", ":", " ", "c", "o", "n", "t", "e", "x", "t", " ", "d", "e", "a", "d", "l", "i", "n", "e", " ", "e", "x", "c", "e", "e", "d", "e", "d">>],
     [kind |-> "process", sent |-> TRUE,
      msg |-> <<"e", "x", "t", "r", "a", "c", "t", "i", "o", "n", " ", "f", "a", "i", "l", "e", "d", ":", " ", "j", "i", "n", "a", ":", " ", "H", "T", "T", "P", " ", "5", "0", "0", ":", " ", "o", "o", "p", "s">>]}

UnknownBackendError ==
    [kind |-> "config", sent |-> FALSE,
      msg |-> <<"u", "n", "k", "n", "o", "w", "n", " ", "e", "x", "t", "r", "a", "c", "t", "i", "o", "n", " ", "b", "a", "c", "k", "e", "n", "d">>]

BackendNames == {"", "readability", "tavily", "jina", "firecrawl"}

\* processURL / processURLBackend: the implementation the backend name selects
SelectBackend(backend) ==
    IF backend = "" \/ backend = "readability" THEN "local"
    ELSE IF backend = "tavily" THEN "tavily"
    ELSE IF backend = "jina" THEN "jina"
    ELSE "unknown"

\* the errors processURL can return in this run
ProcessURLErrors(r) ==
    CASE SelectBackend(r.extractBackend) = "local" -> LocalErrors
      [] SelectBackend(r.extractBackend) = "tavily" ->
            IF r.apiKey THEN TavilyErrors ELSE {TavilyKeyError}
      [] SelectBackend(r.extractBackend) = "jina" -> JinaErrors
      [] OTHER -> {UnknownBackendError}

\* whether processURL can return a result in this run
ProcessURLCanSucceed(r) ==
    /\ SelectBackend(r.extractBackend) # "unknown"
    /\ SelectBackend(r.extractBackend) = "tavily" => r.apiKey

\* the exit code of a run that stops at the first error
FailFastExitCode(errStr) ==
    IF \/ Contains(errStr, <<"f", "a", "i", "l", "e", "d", " ", "t", "o", " ", "f", "e", "t", "c", "h">>)
       \/ Contains(errStr, <<"H", "T", "T", "P", " ", "e", "r", "r", "o", "r">>)
       \/ Contains(errStr, <<"d", "i", "a", "l">>)
    THEN ExitNetworkError ELSE ExitProcessError

\* the exit code of a run that went through all URLs
FinalExitCode(hadError, successCount) ==
    IF hadError /\ successCount > 0 THEN ExitPartialError
    ELSE IF hadError /\ successCount = 0 THEN ExitNetworkError
    ELSE ExitSuccess

OutputEntry(i, url) == [kind |-> "content", i |-> i, url |-> url]

\* fmt.Fprint(output, "\x00") or fmt.Fprintf(output, "\n%s\n", separator), with
\* the default separator "---"
Separator(nullSeparator) ==
    [kind |-> "separator", i |-> 0,
     url |-> IF nullSeparator THEN <<"NUL">> ELSE <<"\n", "-", "-", "-", "\n">>]

WriteOutputFirst(output, i, urls, nullSeparator) ==
    <<OutputEntry(i, urls[i])>> \o output
    \o (IF Len(urls) > 1 /\ i < Len(urls) THEN <<Separator(nullSeparator)>> ELSE <<>>)

\* single output mode: the content, then the separator unless the URL is the last
WriteOutput(output, i, urls, nullSeparator) ==
    output \o <<OutputEntry(i, urls[i])>>
    \o (IF Len(urls) > 1 /\ i < Len(urls) THEN <<Separator(nullSeparator)>> ELSE <<>>)

StopsAtErrorNever(continueOnError) == FALSE

\* if !continueOnError { return ... }
StopsAtError(continueOnError) == ~continueOnError

\* processURL was called for the URL at i; sent tells whether a request went out
Attempt(i, sent) == [kind |-> "attempt", i |-> i, sent |-> sent]

\* time.Sleep at the end of the turn for the URL at i
Delay(i) == [kind |-> "delay", i |-> i, sent |-> FALSE]

\* if delay > 0 && i < len(urls)-1 { time.Sleep(...) }, reached only by a turn
\* that did not end in continue
RateLimit(delay, i, urls) == IF delay > 0 /\ i < Len(urls) THEN <<Delay(i)>> ELSE <<>>

\* os.WriteFile(filePath, ...): the file of that name now holds this content
WriteFile(files, name, i) == {f \in files : f[1] # name} \cup {<<name, i>>}

MaxArgs == 2

URLSamples ==
    {<<"h", "t", "t", "p", "s", ":", "/", "/", "a", "/", "x">>, <<"h", "t", "t", "p", ":", "/", "/", "a", "/", "x">>,
     <<" ", "h", "t", "t", "p", "s", ":", "/", "/", "a", "/", "x", "/">>, <<"f", "t", "p", ":", "/", "/", "c">>}

\* the --file flag: not given, or a file of these lines
NoFile == [given |-> FALSE, lines |-> <<>>]

FileLines == {NoFile, [given |-> TRUE, lines |-> <<<<"h", "t", "t", "p", "s", ":", "/", "/", "f">>>>]}

StdinLines == {<<>>, <<<<"h", "t", "t", "p", "s", ":", "/", "/", "s">>>>}

RunIdle ==
    [pc |-> "idle", args |-> <<>>, file |-> NoFile, stdin |-> <<>>, extractBackend |-> "",
     apiKey |-> FALSE, continueOnError |-> FALSE, outputDir |-> FALSE,
     outputFormat |-> "text", urls |-> <<>>, i |-> 0, hadError |-> FALSE,
     successCount |-> 0, exitCode |-> Running, output |-> <<>>, files |-> {},
     requests |-> 0, failures |-> <<>>, written |-> {}, trace |-> <<>>,
     delay |-> 0, nullSeparator |-> FALSE]

\* --delay, in seconds
Delays == {0, 1}

\* a command line with its configuration and files; the API key matters to
\* tavily only, the format of the file names to directory mode only, the kind
\* of separator to the single output stream only; stdin lines that are not read
\* and the NUL separator are tried with the local backend and no delay
RunInputs ==
    {r \in {[RunIdle EXCEPT !.pc = "start", !.args = a, !.file = f, !.stdin = s,
                            !.extractBackend = b, !.apiKey = k,
                            !.continueOnError = c, !.outputDir = d,
                            !.outputFormat = o, !.delay = w, !.nullSeparator = n] :
              a \in StringsUpTo(URLSamples, MaxArgs), f \in FileLines, s \in StdinLines,
              b \in BackendNames, k \in BOOLEAN, c \in BOOLEAN, d \in BOOLEAN,
              o \in Formats, w \in Delays, n \in BOOLEAN} :
        /\ r.extractBackend # "tavily" => r.apiKey
        /\ ~r.outputDir => r.outputFormat = "text"
        /\ r.nullSeparator => (~r.outputDir /\ r.delay = 0 /\ r.extractBackend = "")
        /\ (r.stdin # <<>> /\ (Len(r.args) > 0 \/ r.file.given)) =>
              (~r.outputDir /\ r.delay = 0 /\ r.extractBackend = "")}

\* run, up to the loop: the configuration is loaded, the URLs are collected,
\* the output is set up
RunSetup ==
    /\ run.pc = "start"
    /\ \/ run' = [run EXCEPT !.pc = "exited", !.exitCode = ExitConfigError]
       \/ /\ run.file.given
          /\ run' = [run EXCEPT !.pc = "exited", !.exitCode = ExitInvalidInput]
       \/ LET urls == collectURLs(run.args, run.file, run.stdin)
          IN  IF Len(urls) = 0
              THEN run' = [run EXCEPT !.pc = "exited", !.exitCode = ExitInvalidInput]
              ELSE \/ run' = [run EXCEPT !.pc = "loop", !.urls = urls, !.i = 1]
                   \/ /\ run.outputDir
                      /\ run' = [run EXCEPT !.pc = "exited", !.urls = urls,
                                            !.exitCode = ExitFileIOError]
    /\ UNCHANGED <<nl, proc, be, jp, render, clean, wrap, call, fetch>>

\* one turn of the loop in which processURL returns an error
ProcessURLError ==
    /\ run.pc = "loop"
    /\ run.i <= Len(run.urls)
    /\ \E e \in ProcessURLErrors(run) :
         LET failed == [run EXCEPT !.hadError = TRUE,
                                   !.failures = Append(@, e.kind),
                                   !.requests = IF e.sent THEN @ + 1 ELSE @,
                                   !.trace = Append(@, Attempt(run.i, e.sent))]
         IN  IF StopsAtError(run.continueOnError)
             THEN run' = [failed EXCEPT !.pc = "exited",
                                        !.exitCode = FailFastExitCode(e.msg)]
             ELSE run' = [failed EXCEPT !.i = @ + 1]
    /\ UNCHANGED <<nl, proc, be, jp, render, clean, wrap, call, fetch>>

\* one turn of the loop in which processURL returns a result and it is written
ProcessURLWritten ==
    /\ run.pc = "loop"
    /\ run.i <= Len(run.urls)
    /\ ProcessURLCanSucceed(run)
    /\ LET counted == [run EXCEPT !.successCount = @ + 1, !.requests = @ + 1,
                                  !.written = @ \cup {run.i}, !.i = @ + 1,
                                  !.trace = Append(@, Attempt(run.i, TRUE))
                                            \o RateLimit(run.delay, run.i, run.urls)]
       IN  IF run.outputDir
           THEN run' = [counted EXCEPT
                          !.files = WriteFile(@, urlToFilename(run.urls[run.i],
                                                               run.outputFormat), run.i)]
           ELSE run' = [counted EXCEPT
                          !.output = WriteOutput(@, run.i, run.urls, run.nullSeparator)]
    /\ UNCHANGED <<nl, proc, be, jp, render, clean, wrap, call, fetch>>

\* one turn of the loop in which processURL returns a result and os.WriteFile fails
WriteFileError ==
    /\ run.pc = "loop"
    /\ run.i <= Len(run.urls)
    /\ ProcessURLCanSucceed(run)
    /\ run.outputDir
    /\ LET failed == [run EXCEPT !.successCount = @ + 1, !.requests = @ + 1,
                                 !.hadError = TRUE, !.failures = Append(@, "fileio"),
                                 !.trace = Append(@, Attempt(run.i, TRUE))]
       IN  IF StopsAtError(run.continueOnError)
           THEN run' = [failed EXCEPT !.pc = "exited", !.exitCode = ExitFileIOError]
           ELSE run' = [failed EXCEPT !.i = @ + 1]
    /\ UNCHANGED <<nl, proc, be, jp, render, clean, wrap, call, fetch>>

\* run, after the loop
RunReturns ==
    /\ run.pc = "loop"
    /\ run.i > Len(run.urls)
    /\ run' = [run EXCEPT !.pc = "exited",
                          !.exitCode = FinalExitCode(run.hadError, run.successCount)]
    /\ UNCHANGED <<nl, proc, be, jp, render, clean, wrap, call, fetch>>

(***************************************************************************)
(* ContentProcessor.Process after the length check: go-readability, the    *)
(* ProcessedContent record, and the cleaning of its content HTML.  A       *)
(* content HTML is the sequence of the nodes of its markup.                *)
(***************************************************************************)

\* goquery.NewDocumentFromReader on a content HTML: markup that holds the html
\* element is a whole document already
ParseContent(content) ==
    IF \E i \in 1..Len(content) : content[i].type = "element" /\ content[i].tag = "html"
    THEN Reparse(Document(content))
    ELSE NewDocumentFromReader(content)

\* cleanHTML: the markup of the cleaned document
cleanHTML(content) == CleanDocument(ParseContent(content)).children

\* removeAds: the markup of the document without the ads
removeAds(content) == RemoveAdsDocument(ParseContent(content)).children

\* the text of a content HTML, its tags stripped
ContentText(content) == Join([i \in 1..Len(content) |-> NodeText(content[i])], <<>>)

\* <p><a href="https://x.com">link</a><img src="s" alt="i"/></p>
PLinkImg ==
    Element("p", {},
            <<Element("a", {<<"href", LinkTarget>>}, <<TextNode(<<"l", "i", "n", "k">>)>>),
              Img>>)

\* the content HTML of the articles go-readability returns
ArticleMarkups ==
    {<<LongPara>>, <<AdvisorPara>>, <<LongPara, AdvisorPara>>, <<PromoPara, LongPara>>,
     <<CommentNode(<<"c">>), LongPara, PBlank>>, <<LongPara, PLinkImg>>}

\* what go-readability may return: an article whose text content is the text of
\* its content HTML
Articles ==
    {[Title |-> t, Content |-> m, TextContent |-> ContentText(m),
      Length |-> Len(ContentText(m))] :
        t \in {<<>>, <<"T">>}, m \in ArticleMarkups}

\* extractImages: the src of every img that has one
extractImages(doc) ==
    LET imgs == FindTags(doc, {"img"})
    IN  Join([i \in 1..Len(imgs) |->
                IF AttrOr(imgs[i], "src", <<>>) # <<>>
                THEN <<AttrOr(imgs[i], "src", <<>>)>> ELSE <<>>], <<>>)

\* extractLinks: text and URL of every a with a non-empty href
extractLinks(doc) ==
    LET as == FindTags(doc, {"a"})
    IN  Join([i \in 1..Len(as) |->
                IF AttrOr(as[i], "href", <<>>) # <<>>
                THEN <<[Text |-> IF TrimSpace(NodeText(as[i])) = <<>>
                                 THEN AttrOr(as[i], "href", <<>>)
                                 ELSE TrimSpace(NodeText(as[i])),
                        URL  |-> AttrOr(as[i], "href", <<>>)]>>
                ELSE <<>>], <<>>)

\* Process from the article on: the result record, the images and links of the
\* article's content, then cleanHTML and removeAds on result.Content as the
\* options ask.  The sample pages hold no meta, title or link element, so
\* extractMetadata finds nothing.
ProcessArticle(article, opts) ==
    LET cleaned == IF opts.CleanHTML THEN cleanHTML(article.Content) ELSE article.Content
        content == IF opts.RemoveAds THEN removeAds(cleaned) ELSE cleaned
    IN  [Title       |-> article.Title,
         Content     |-> content,
         TextContent |-> CleanNewlines(article.TextContent),
         Length      |-> article.Length,
         Metadata    |-> {},
         Images      |-> extractImages(ParseContent(article.Content)),
         Links       |-> extractLinks(ParseContent(article.Content))]

\* article, err := readability.FromReader(...): the library fails or gives an
\* article, and Process returns the result built from it
ProcessReadability ==
    /\ proc.pc = "readability"
    /\ \/ proc' = [proc EXCEPT !.pc = "failed",
                                !.readabilityCalls = @ + 1,
                                !.err = "failed to process with readability"]
       \/ \E article \in Articles :
             proc' = [proc EXCEPT
                        !.pc = "extracted",
                        !.readabilityCalls = @ + 1,
                        !.article = article,
                        !.result = ProcessArticle(article, proc.opts)]
    /\ UNCHANGED <<nl, be, jp, render, clean, wrap, run, call, fetch>>

(***************************************************************************)
(* The deadline of one extraction call: processURL's context and the       *)
(* http.Client that sends the request.  Time is counted in whole seconds.  *)
(***************************************************************************)
\* NewSimpleFetcher: client: &http.Client{Timeout: 30 * time.Second}
SimpleFetcherTimeout == 30

\* NewTavilyBackend, NewJinaBackend: if timeout == 0 { timeout = 30 * time.Second }
DefaultBackendTimeout == 30

\* the largest --timeout, and the longest a server is waited for
MaxTimeout == 32

CallIdle ==
    [pc |-> "idle", backend |-> "", timeout |-> 0, ctxDeadline |-> 0,
     clientTimeout |-> 0, elapsed |-> 0, err |-> ""]

\* the Timeout of the backend's http.Client
NewBackendTimeout(timeout) == IF timeout = 0 THEN DefaultBackendTimeout ELSE timeout

\* the Timeout of the http.Client processURL's request goes through
ClientTimeout(backend, timeout) ==
    IF backend \in {"", "readability"}
    THEN SimpleFetcherTimeout
    ELSE NewBackendTimeout(timeout)

\* client.Do gives up at the earlier of the context's deadline and Client.Timeout
AbortAfter(c) ==
    IF c.ctxDeadline <= c.clientTimeout THEN c.ctxDeadline ELSE c.clientTimeout

\* the errors client.Do can return once AbortAfter has passed
AbortErrors(c) ==
    {e \in {"context deadline exceeded", "Client.Timeout exceeded"} :
        \/ e = "context deadline exceeded" /\ c.ctxDeadline <= c.elapsed
        \/ e = "Client.Timeout exceeded" /\ c.clientTimeout <= c.elapsed}

\* processURL up to client.Do: context.WithTimeout and the client's construction
ProcessURLStarts ==
    /\ call.pc = "start"
    /\ call' = [call EXCEPT !.pc = "pending",
                           !.ctxDeadline = call.timeout,
                           !.clientTimeout = ClientTimeout(call.backend, call.timeout)]
    /\ UNCHANGED <<nl, proc, be, jp, render, clean, wrap, run, fetch>>

\* a second passes with the request outstanding
SecondPasses ==
    /\ call.pc = "pending"
    /\ call.elapsed < AbortAfter(call)
    /\ call' = [call EXCEPT !.elapsed = @ + 1]
    /\ UNCHANGED <<nl, proc, be, jp, render, clean, wrap, run, fetch>>

\* the server answers in time
ResponseArrives ==
    /\ call.pc = "pending"
    /\ call.elapsed < AbortAfter(call)
    /\ call' = [call EXCEPT !.pc = "done"]
    /\ UNCHANGED <<nl, proc, be, jp, render, clean, wrap, run, fetch>>

\* the connection fails in time
ConnectionFails ==
    /\ call.pc = "pending"
    /\ call.elapsed < AbortAfter(call)
    /\ call' = [call EXCEPT !.pc = "done", !.err = "connection refused"]
    /\ UNCHANGED <<nl, proc, be, jp, render, clean, wrap, run, fetch>>

\* client.Do gives up: the context's deadline or Client.Timeout has passed
RequestAborted ==
    /\ call.pc = "pending"
    /\ call.elapsed >= AbortAfter(call)
    /\ \E e \in AbortErrors(call) : call' = [call EXCEPT !.pc = "done", !.err = e]
    /\ UNCHANGED <<nl, proc, be, jp, render, clean, wrap, run, fetch>>

(***************************************************************************)
(* ContentFetcher.Fetch: the static fetch, the test for JavaScript         *)
(* rendering and the Chrome fetch.  A FetchResult is kept by its URL, HTML *)
(* and UsedJS fields.                                                      *)
(***************************************************************************)
FetchModeAuto == "auto"

FetchModeStatic == "static"

FetchModeJS == "javascript"

FetchResult(url, html, usedJS) == [URL |-> url, HTML |-> html, UsedJS |-> usedJS]

FetchIdle ==
    [pc |-> "idle", mode |-> "", url |-> "", staticCalls |-> 0, jsCalls |-> 0,
     static |-> Nil, result |-> Nil, err |-> ""]

\* strings.Count, for a sub that does not overlap itself
Count(s, sub) ==
    Cardinality({i \in 1..(Len(s) - Len(sub) + 1) : SubSeq(s, i, i + Len(sub) - 1) = sub})

\* Go's start after "start = strings.Index(html[start:], ">"); start += start + 1",
\* as the 1-based position of the first character of html[start:]; 0 when
\* "<body" or ">" is missing
BodyStart(html) ==
    LET p == Index(ToLower(html), <<"<", "b", "o", "d", "y">>)
    IN  IF p = 0 THEN 0
        ELSE LET q == Index(SubSeq(html, p, Len(html)), <<">">>)
             IN  IF q = 0 THEN 0 ELSE 2 * q

\* lowerHTML[start:] with start beyond the end of the string panics
extractBodyContentPanics(html) == BodyStart(html) > Len(html) + 1

extractBodyContent(html) ==
    LET start == BodyStart(html)
    IN  IF start = 0 THEN html
        ELSE LET end == Index(SubSeq(ToLower(html), start, Len(html)), <<"<", "/", "b", "o", "d", "y", ">">>)
             IN  IF end = 0 THEN SubSeq(html, start, Len(html))
                 ELSE SubSeq(html, start, start + end - 2)

jsFrameworks ==
    <<<<"r", "e", "a", "c", "t">>,
      <<"v", "u", "e">>,
      <<"a", "n", "g", "u", "l", "a", "r">>,
      <<"b", "a", "c", "k", "b", "o", "n", "e">>,
      <<"e", "m", "b", "e", "r">>,
      <<"d", "a", "t", "a", "-", "r", "e", "a", "c", "t", "r", "o", "o", "t">>,
      <<"n", "g", "-", "a", "p", "p">>,
      <<"v", "-", "a", "p", "p">>>>

needsJSRendering(html) ==
    LET lowerHTML == ToLower(html)
    IN  \/ \E i \in 1..Len(jsFrameworks) : Contains(lowerHTML, jsFrameworks[i])
        \/ Contains(lowerHTML, <<"l", "o", "a", "d", "i", "n", "g">>) /\ Len(TrimSpace(html)) < 2000
        \/ /\ Count(lowerHTML, <<"<", "s", "c", "r", "i", "p", "t">>) > 5
           /\ Len(TrimSpace(extractBodyContent(html))) < 1000

\* needsJSRendering reaches extractBodyContent when its first two tests fail
needsJSRenderingPanics(html) ==
    LET lowerHTML == ToLower(html)
    IN  /\ ~\E i \in 1..Len(jsFrameworks) : Contains(lowerHTML, jsFrameworks[i])
        /\ ~(Contains(lowerHTML, <<"l", "o", "a", "d", "i", "n", "g">>) /\ Len(TrimSpace(html)) < 2000)
        /\ extractBodyContentPanics(html)

\* pages the static fetch may return
HtmlSamples ==
    {<<"<", "p", ">", "E", "m", "b", "e", "r", "<", "/", "p", ">">>,
     <<"<", "a", "p", "p", "-", "r", "o", "o", "t", ">">>,
     <<"<", "p", ">", "h", "i", "<", "/", "p", ">">>, <<"<", "d", "i", "v", " ", "i", "d", "=", "R", "e", "a", "c", "t", ">">>, <<"<", "p", ">", "a", " ", "r", "e", "v", "u", "e", "<", "/", "p", ">">>, <<"<", "h", "t", "m", "l", " ", "n", "g", "-", "a", "p", "p", ">">>, <<"L", "o", "a", "d", "i", "n", "g", ".", ".", ".">>, <<"<", "p", ">", "L", "O", "A", "D", "I", "N", "G", "<", "/", "p", ">">>,
     [i \in 1..2000 |-> "x"] \o <<"l", "o", "a", "d", "i", "n", "g">>,
     Repeat(<<"<", "s", "c", "r", "i", "p", "t", ">">>, 6), Repeat(<<"<", "s", "c", "r", "i", "p", "t", ">">>, 5),
     <<"<", "b", "o", "d", "y", ">", "<", "p", ">", "t", "e", "x", "t", "<", "/", "p", ">", "<", "/", "b", "o", "d", "y", ">">>, <<"<", "b", "o", "d", "y", ">", "x">>}

\* pages Chrome may return
RenderedSamples == {<<"<", "p", ">", "j", "s", "<", "/", "p", ">">>, <<"<", "d", "i", "v", " ", "i", "d", "=", "R", "e", "a", "c", "t", ">", "j", "s", "<", "/", "d", "i", "v", ">">>}

StaticErrors ==
    {"failed to create request", "failed to fetch URL", "HTTP error", "failed to read response body"}

\* Fetch up to the first fetch it starts
Fetch ==
    /\ fetch.pc = "start"
    /\ IF fetch.mode = FetchModeJS
       THEN fetch' = [fetch EXCEPT !.pc = "js", !.jsCalls = @ + 1]
       ELSE fetch' = [fetch EXCEPT !.pc = "static", !.staticCalls = @ + 1]
    /\ UNCHANGED <<nl, proc, be, jp, render, clean, wrap, run, call>>

\* fetchStatic returns an error: Fetch returns it
FetchStaticFails ==
    /\ fetch.pc = "static"
    /\ \E e \in StaticErrors : fetch' = [fetch EXCEPT !.pc = "done", !.err = e]
    /\ UNCHANGED <<nl, proc, be, jp, render, clean, wrap, run, call>>

\* fetchStatic returns a page: static mode returns it, auto mode returns it
\* unless needsJSRendering sends it on to fetchWithJS
FetchStaticReturns ==
    /\ fetch.pc = "static"
    /\ \E html \in HtmlSamples :
         LET result == FetchResult(fetch.url, html, FALSE)
         IN  IF fetch.mode = FetchModeStatic
             THEN fetch' = [fetch EXCEPT !.pc = "done", !.static = result, !.result = result]
             ELSE IF needsJSRenderingPanics(html)
             THEN fetch' = [fetch EXCEPT !.pc = "panicked", !.static = result]
             ELSE IF needsJSRendering(html)
             THEN fetch' = [fetch EXCEPT !.pc = "js", !.static = result, !.jsCalls = @ + 1]
             ELSE fetch' = [fetch EXCEPT !.pc = "done", !.static = result, !.result = result]
    /\ UNCHANGED <<nl, proc, be, jp, render, clean, wrap, run, call>>

\* chromedp.Run returns an error: Fetch returns it
FetchWithJSFails ==
    /\ fetch.pc = "js"
    /\ fetch' = [fetch EXCEPT !.pc = "done", !.err = "failed to run Chrome tasks"]
    /\ UNCHANGED <<nl, proc, be, jp, render, clean, wrap, run, call>>

\* chromedp.Run returns the rendered page
FetchWithJSReturns ==
    /\ fetch.pc = "js"
    /\ \E html \in RenderedSamples :
         fetch' = [fetch EXCEPT !.pc = "done", !.result = FetchResult(fetch.url, html, TRUE)]
    /\ UNCHANGED <<nl, proc, be, jp, render, clean, wrap, run, call>>

(***************************************************************************)
(* Specifications: one per component, each started on the component's      *)
(* inputs with the other components idle.                                  *)
(***************************************************************************)

NLInit ==
    /\ call = CallIdle
    /\ fetch = FetchIdle
    /\ nl \in {[pc |-> "text", text |-> t, out |-> <<>>, out2 |-> <<>>] : t \in NLTexts}
    /\ proc = ProcIdle
    /\ be = BackendIdle
    /\ jp = JinaParseIdle
    /\ render = MarkdownIdle
    /\ clean = CleanIdle
    /\ wrap = WrapIdle
    /\ run = RunIdle

NLNext == Normalize \/ NormalizeAgain

SpecNL == NLInit /\ [][NLNext]_vars

ProcInit ==
    /\ call = CallIdle
    /\ fetch = FetchIdle
    /\ nl = NLIdle
    /\ be = BackendIdle
    /\ jp = JinaParseIdle
    /\ render = MarkdownIdle
    /\ clean = CleanIdle
    /\ wrap = WrapIdle
    /\ run = RunIdle
    /\ proc \in {[ProcIdle EXCEPT !.pc = "start", !.html = PageOfLen(k), !.opts = o] :
                    k \in 0..MaxHtmlLen, o \in ProcessOptionsSet}

ProcNext == ProcessCheckLength \/ ProcessReadability

SpecProcess == ProcInit /\ [][ProcNext]_vars

JinaParseInit ==
    /\ call = CallIdle
    /\ fetch = FetchIdle
    /\ nl = NLIdle
    /\ proc = ProcIdle
    /\ be = BackendIdle
    /\ render = MarkdownIdle
    /\ clean = CleanIdle
    /\ wrap = WrapIdle
    /\ run = RunIdle
    /\ jp \in {[JinaParseIdle EXCEPT !.pc = "body", !.content = c] : c \in JinaParseInputs}

JinaParseNext == ParseJinaMarkdown \/ StripJinaMarkdown

SpecJinaParse == JinaParseInit /\ [][JinaParseNext]_vars

BackendInit ==
    /\ call = CallIdle
    /\ fetch = FetchIdle
    /\ nl = NLIdle
    /\ proc = ProcIdle
    /\ jp = JinaParseIdle
    /\ render = MarkdownIdle
    /\ clean = CleanIdle
    /\ wrap = WrapIdle
    /\ run = RunIdle
    /\ be \in {[BackendIdle EXCEPT !.pc = "start", !.backend = b, !.APIKey = k,
                                   !.url = u, !.format = f] :
                b \in {"tavily", "jina"}, k \in {"", "key"}, u \in URLs, f \in Formats}

BackendNext ==
    TavilyExtract \/ JinaExtract \/ RequestFails \/ TavilyResponse \/ JinaResponse

SpecBackend == BackendInit /\ [][BackendNext]_vars

MarkdownInit ==
    /\ call = CallIdle
    /\ fetch = FetchIdle
    /\ nl = NLIdle
    /\ proc = ProcIdle
    /\ be = BackendIdle
    /\ jp = JinaParseIdle
    /\ clean = CleanIdle
    /\ wrap = WrapIdle
    /\ run = RunIdle
    /\ render \in {[MarkdownIdle EXCEPT !.pc = "content", !.content = c,
                                        !.includeMetadata = m, !.preserveLinks = l] :
                    c \in ProcessedContents, m \in BOOLEAN, l \in BOOLEAN}

MarkdownNext == RenderMarkdown \/ RenderMarkdownAgain

SpecMarkdown == MarkdownInit /\ [][MarkdownNext]_vars

CleanInit ==
    /\ call = CallIdle
    /\ fetch = FetchIdle
    /\ nl = NLIdle
    /\ proc = ProcIdle
    /\ be = BackendIdle
    /\ jp = JinaParseIdle
    /\ render = MarkdownIdle
    /\ wrap = WrapIdle
    /\ run = RunIdle
    /\ clean \in {[CleanIdle EXCEPT !.pc = "content", !.content = c] : c \in ContentMarkups}

CleanNext == CleanHTML \/ CleanHTMLAgain \/ RemoveAds

SpecClean == CleanInit /\ [][CleanNext]_vars

WrapInit ==
    /\ call = CallIdle
    /\ fetch = FetchIdle
    /\ nl = NLIdle
    /\ proc = ProcIdle
    /\ be = BackendIdle
    /\ jp = JinaParseIdle
    /\ render = MarkdownIdle
    /\ clean = CleanIdle
    /\ run = RunIdle
    /\ wrap \in {[WrapIdle EXCEPT !.pc = "text", !.text = t, !.lineWidth = w] :
                  t \in StringsUpTo(WrapChars, MaxWrapLen), w \in -1..MaxLineWidth}

WrapNext == WrapText

SpecWrap == WrapInit /\ [][WrapNext]_vars

RunInit ==
    /\ call = CallIdle
    /\ fetch = FetchIdle
    /\ nl = NLIdle
    /\ proc = ProcIdle
    /\ be = BackendIdle
    /\ jp = JinaParseIdle
    /\ render = MarkdownIdle
    /\ clean = CleanIdle
    /\ wrap = WrapIdle
    /\ run \in RunInputs

RunNext ==
    RunSetup \/ ProcessURLError \/ ProcessURLWritten \/ WriteFileError \/ RunReturns

SpecRun == RunInit /\ [][RunNext]_vars

DeadlineInit ==
    /\ nl = NLIdle
    /\ proc = ProcIdle
    /\ be = BackendIdle
    /\ jp = JinaParseIdle
    /\ render = MarkdownIdle
    /\ clean = CleanIdle
    /\ wrap = WrapIdle
    /\ run = RunIdle
    /\ fetch = FetchIdle
    /\ call \in {[CallIdle EXCEPT !.pc = "start", !.backend = b, !.timeout = t] :
                    b \in {"", "tavily", "jina"}, t \in 0..MaxTimeout}

DeadlineNext ==
    ProcessURLStarts \/ SecondPasses \/ ResponseArrives \/ ConnectionFails \/ RequestAborted

SpecDeadline == DeadlineInit /\ [][DeadlineNext]_vars

FetchInit ==
    /\ nl = NLIdle
    /\ proc = ProcIdle
    /\ be = BackendIdle
    /\ jp = JinaParseIdle
    /\ render = MarkdownIdle
    /\ clean = CleanIdle
    /\ wrap = WrapIdle
    /\ run = RunIdle
    /\ call = CallIdle
    /\ fetch \in {[FetchIdle EXCEPT !.pc = "start", !.mode = m, !.url = u] :
                    m \in {FetchModeAuto, FetchModeStatic, FetchModeJS}, u \in URLs}

FetchNext ==
    Fetch \/ FetchStaticFails \/ FetchStaticReturns \/ FetchWithJSFails \/ FetchWithJSReturns

SpecFetch == FetchInit /\ [][FetchNext]_vars

(***************************************************************************)
(* Properties                                                              *)
(***************************************************************************)

\* C1: CleanNewlines is idempotent: normalizing the normalizer's own output
\* gives that output back, for every input text.
C1_Idempotent == nl.pc = "recleaned" => nl.out2 = nl.out

\* a text the first pass really rewrote (lines joined), normalized twice
C1_Witness ==
    /\ nl.pc = "recleaned"
    /\ nl.out # <<>>
    /\ nl.out # nl.text
    /\ Contains(nl.text, <<"\n">>)
    /\ Contains(nl.out, <<" ">>)

\* the trimmed non-empty lines of a paragraph, in order
C2_Lines(paragraph) ==
    LET raw == Split(paragraph, <<"\n">>)
    IN  SelectSeq([i \in 1..Len(raw) |-> TrimSpace(raw[i])], LAMBDA l : l # <<>>)

C2_EndsSentence(l) == l[Len(l)] \in {".", "!", "?", ":", ";"}

C2_StartsItem(l) ==
    \/ l[1] \in UpperCase \cup Digits
    \/ Len(l) >= 2 /\ l[1] \in {"-", "*", Bullet} /\ l[2] = " "

\* the lines put together pairwise: a space where the rule joins, a newline otherwise
RECURSIVE C2_Walk(_)
C2_Walk(lines) ==
    IF Len(lines) <= 1 THEN Join(lines, <<>>)
    ELSE lines[1]
         \o (IF ~C2_EndsSentence(lines[1]) /\ ~C2_StartsItem(lines[2])
             THEN <<" ">> ELSE <<"\n">>)
         \o C2_Walk(Tail(lines))

\* s without the spaces that follow a space
C2_Squeeze(s) ==
    LET keep == {i \in 1..Len(s) : ~(s[i] = " " /\ i > 1 /\ s[i - 1] = " ")}
        nth(k) == CHOOSE i \in keep : Cardinality({j \in keep : j <= i}) = k
    IN  [k \in 1..Cardinality(keep) |-> s[nth(k)]]

\* "Hello world.\nThis is new."
HelloWorldCleaned ==
    <<"H", "e", "l", "l", "o", " ", "w", "o", "r", "l", "d", ".", "\n",
      "T", "h", "i", "s", " ", "i", "s", " ", "n", "e", "w", ".">>

\* C2: within one paragraph a trimmed non-empty line is joined onto the previous
\* line with a single space exactly when the previous line does not end with one
\* of . ! ? : ; and the line does not start with an uppercase letter, a digit or
\* a bullet marker; otherwise it starts a new line.
C2_JoinRule ==
    LET text == NormalizeLineEndings(nl.text)
    IN  (nl.pc = "cleaned" /\ ~Contains(text, <<"\n", "\n">>))
            => nl.out = C2_Squeeze(C2_Walk(C2_Lines(text)))

\* the spec's example: one mid-sentence join, one sentence break kept
C2_Witness ==
    /\ nl.pc = "cleaned"
    /\ nl.text = HelloWorld
    /\ nl.out = HelloWorldCleaned

C3_NonBlank(s) == \E i \in 1..Len(s) : s[i] \notin WhiteSpace

C3_Ink(s) == SelectSeq(s, LAMBDA c : c \notin WhiteSpace)

C3_InputParagraphs ==
    SelectSeq(Split(NormalizeLineEndings(nl.text), <<"\n", "\n">>), C3_NonBlank)

C3_OutputParagraphs == IF nl.out = <<>> THEN <<>> ELSE Split(nl.out, <<"\n", "\n">>)

\* C3: the output's paragraphs are, in order, the input's double-newline
\* paragraphs that hold a non-blank line: none merged, none blank, one double
\* newline between two of them.
C3_Paragraphs ==
    nl.pc = "cleaned" =>
        /\ Len(C3_OutputParagraphs) = Len(C3_InputParagraphs)
        /\ \A i \in 1..Len(C3_OutputParagraphs) :
              LET p == C3_OutputParagraphs[i]
              IN  /\ p # <<>>
                  /\ p[1] \notin WhiteSpace
                  /\ p[Len(p)] \notin WhiteSpace
                  /\ C3_Ink(p) = C3_Ink(C3_InputParagraphs[i])
        /\ nl.text = TwoParagraphs => nl.out = TwoParagraphs

\* two paragraphs kept apart while a blank paragraph between them is dropped
C3_Witness ==
    /\ nl.pc = "cleaned"
    /\ Len(C3_OutputParagraphs) = 2
    /\ Len(Split(NormalizeLineEndings(nl.text), <<"\n", "\n">>)) = 3

\* C4: an HTML input shorter than MinContentLength fails with the content-too-short
\* error before any readability work; an input at least that long never fails
\* the length check.
C4_TooShortFirst ==
    proc.pc \notin {"idle", "start"} =>
        /\ (Len(proc.html) < proc.opts.MinContentLength)
              <=> (proc.pc = "failed" /\ proc.err = "content too short")
        /\ Len(proc.html) < proc.opts.MinContentLength
              => (proc.readabilityCalls = 0 /\ proc.result = Nil)

\* a non-empty page rejected for its length, readability never called
C4_Witness ==
    /\ proc.pc = "failed"
    /\ proc.err = "content too short"
    /\ Len(proc.html) > 0
    /\ proc.readabilityCalls = 0

C5_Answered(backend) ==
    be.pc = "done" /\ be.backend = backend /\ be.resp.status = 200

C5_Failed == {be.resp.body.failed[i] : i \in 1..Len(be.resp.body.failed)}

\* C5: on an HTTP-200 response Tavily's Extract fails with the no-results error
\* when results and failed_results are both empty, and with the extraction-failed
\* error when the requested URL is in failed_results, whatever results holds.
C5_FailureReported ==
    (C5_Answered("tavily") /\ be.resp.body.valid) =>
        /\ (be.resp.body.results = <<>> /\ be.resp.body.failed = <<>>)
              => (be.result = Nil /\ be.err.msg = "no results returned")
        /\ be.url \in C5_Failed
              => (be.result = Nil /\ be.err.msg = "extraction failed")

\* the requested URL is reported as failed and Extract returns a result all the same
C5_FailedButReturned ==
    /\ C5_Answered("tavily")
    /\ be.url \in C5_Failed
    /\ be.result # Nil
    /\ be.err = NoError

C6_Body == be.resp.body.text

C6_HasMarker == C5_Answered("jina") /\ Contains(C6_Body, MarkdownMarker)

\* everything after the first occurrence of the marker, trimmed
C6_AfterMarker ==
    TrimSpace(SubSeq(C6_Body, Index(C6_Body, MarkdownMarker) + Len(MarkdownMarker),
                     Len(C6_Body)))

C6_TitleLines ==
    {i \in 1..Len(Split(C6_Body, <<"\n">>)) :
        HasPrefix(Split(C6_Body, <<"\n">>)[i], TitleField)}

\* the trimmed remainder of the first line that starts with "Title:"
C6_Title ==
    IF C6_TitleLines = {} THEN <<>>
    ELSE LET line == Split(C6_Body, <<"\n">>)[CHOOSE i \in C6_TitleLines :
                                                \A j \in C6_TitleLines : i <= j]
         IN  TrimSpace(SubSeq(line, Len(TitleField) + 1, Len(line)))

\* C6 (as amended): with the marker in an HTTP-200 body, the url is the requested
\* url, the title is the trimmed remainder of the first "Title:" line, and the
\* content is what follows the first marker, trimmed -- or the whole body when
\* nothing follows it -- with stripBasicMarkdown applied when the format is text.
C6_MarkerContent ==
    C6_HasMarker =>
        /\ be.err = NoError
        /\ be.result # Nil
        /\ be.result.URL = be.url
        /\ be.result.Title = C6_Title
        /\ LET md == IF C6_AfterMarker = <<>> THEN C6_Body ELSE C6_AfterMarker
           IN  be.result.Content = IF be.format = "text" THEN stripBasicMarkdown(md) ELSE md

\* C6 (as claimed): for every such body the content is what follows the marker.
C6_AlwaysAfterMarker ==
    C6_HasMarker =>
        /\ be.result # Nil
        /\ be.result.URL = be.url
        /\ be.result.Title = C6_Title
        /\ be.result.Content = C6_AfterMarker

\* a title field, the marker and content after it, returned as Markdown
C6_Witness ==
    /\ C6_HasMarker
    /\ be.format = "markdown"
    /\ be.result # Nil
    /\ be.result.Title = <<"T">>
    /\ be.result.Content = <<"#", " ", "H">>
    /\ be.result.Content # C6_Body

C7_Lines == Split(jp.content, <<"\n">>)

C7_Headings == {i \in 1..Len(C7_Lines) : C7_Lines[i] # <<>> /\ C7_Lines[i][1] = "#"}

\* the non-blank, colon-free lines after the fourth line
C7_BodyLines ==
    {i \in 5..Len(C7_Lines) :
        /\ \E k \in 1..Len(C7_Lines[i]) : C7_Lines[i][k] \notin WhiteSpace
        /\ \A k \in 1..Len(C7_Lines[i]) : C7_Lines[i][k] # ":"}

C7_From(i) == Join(SubSeq(C7_Lines, i, Len(C7_Lines)), <<"\n">>)

C7_First(S) == CHOOSE i \in S : \A j \in S : i <= j

C7_NoMarker == jp.pc = "markdown" /\ ~Contains(jp.content, MarkdownMarker)

\* C7 (as amended): without the marker the content starts at the first line, in
\* document order, that is a heading line or a non-blank colon-free line after
\* the fourth line, whichever comes first; without such a line it is the body.
C7_FirstCandidate ==
    C7_NoMarker =>
        jp.markdown = IF C7_Headings \cup C7_BodyLines = {} THEN jp.content
                      ELSE C7_From(C7_First(C7_Headings \cup C7_BodyLines))

\* C7 (as claimed): a heading line anywhere wins over a body line before it.
C7_HeadingFirst ==
    C7_NoMarker =>
        jp.markdown = IF C7_Headings # {} THEN C7_From(C7_First(C7_Headings))
                      ELSE IF C7_BodyLines # {} THEN C7_From(C7_First(C7_BodyLines))
                      ELSE jp.content

\* the content starts at a body line although a heading line follows it
C7_Witness ==
    /\ C7_NoMarker
    /\ C7_Headings # {}
    /\ C7_BodyLines # {}
    /\ C7_First(C7_BodyLines) < C7_First(C7_Headings)
    /\ jp.markdown = C7_From(C7_First(C7_BodyLines))

C8_TextLines == Split(jp.text, <<"\n">>)

C8_Markup == {"#", "*", "_"} \cup WhiteSpace

\* C8: no line of stripBasicMarkdown's result begins with '#', the result holds
\* neither '**' nor '__', and the other characters of each line are kept in order.
C8_Stripped ==
    jp.pc = "text" =>
        /\ \A i \in 1..Len(C8_TextLines) : ~HasPrefix(C8_TextLines[i], <<"#">>)
        /\ ~Contains(jp.text, <<"*", "*">>)
        /\ ~Contains(jp.text, <<"_", "_">>)
        /\ Len(C8_TextLines) = Len(Split(jp.markdown, <<"\n">>))
        /\ \A i \in 1..Len(C8_TextLines) :
              SelectSeq(C8_TextLines[i], LAMBDA c : c \notin C8_Markup)
                = SelectSeq(Split(jp.markdown, <<"\n">>)[i], LAMBDA c : c \notin C8_Markup)

\* a heading marker survives: the line began with white space before its '#'
C8_HeadingKept ==
    /\ jp.pc = "text"
    /\ \E i \in 1..Len(C8_TextLines) : HasPrefix(C8_TextLines[i], <<"#">>)

\* a bold marker survives: it was put together by removing '__'
C8_BoldKept == jp.pc = "text" /\ Contains(jp.text, <<"*", "*">>)

C9_StatusErrors == {"authentication failed", "authentication error", "rate limited", "HTTP"}

C9_Received == be.pc = "done" /\ be.resp # NoResponse

\* C9 (as amended): 401 and 403 give the authentication error, 429 the
\* rate-limited error, every other status except 200 -- the other 2xx statuses
\* included -- the HTTP error with the status code and the body; only 200 is no
\* status error; a result is returned exactly when no error is.
C9_StatusClasses ==
    /\ be.pc = "done" => (be.result = Nil <=> be.err # NoError)
    /\ C9_Received =>
        /\ be.resp.status \in {401, 403} =>
              /\ be.err.msg \in {"authentication failed", "authentication error"}
              /\ be.err.body = be.resp.body
        /\ be.resp.status = 429 => be.err.msg = "rate limited"
        /\ be.resp.status \notin {200, 401, 403, 429} =>
              /\ be.err.msg = "HTTP"
              /\ be.err.code = be.resp.status
              /\ be.err.body = be.resp.body
        /\ be.resp.status = 200 => be.err.msg \notin C9_StatusErrors

\* C9 (as claimed): every 2xx status is no error, the HTTP error is for the
\* other statuses.
C9_Every2xxSucceeds ==
    /\ be.pc = "done" => (be.result = Nil <=> be.err # NoError)
    /\ C9_Received =>
        /\ be.resp.status \in {401, 403} =>
              be.err.msg \in {"authentication failed", "authentication error"}
        /\ be.resp.status = 429 => be.err.msg = "rate limited"
        /\ be.resp.status \notin (200..299) \cup {401, 403, 429} =>
              /\ be.err.msg = "HTTP"
              /\ be.err.code = be.resp.status
              /\ be.err.body = be.resp.body
        /\ be.resp.status \in 200..299 => be.err.msg \notin C9_StatusErrors

\* a 2xx status other than 200 answered with the HTTP error
C9_Witness ==
    /\ C9_Received
    /\ be.resp.status = 204
    /\ be.err.msg = "HTTP"
    /\ be.err.code = 204
    /\ be.result = Nil

\* "# Title\n\nHello [link](https://x.com).\n\n"
C10_Expected ==
    <<"#", " ", "T", "i", "t", "l", "e", "\n", "\n", "H", "e", "l", "l", "o", " ", "[", "l", "i", "n", "k", "]", "(">> \o LinkTarget \o <<")", ".", "\n", "\n">>

C10_Example ==
    /\ render.pc = "rendered"
    /\ render.content.Content.Body.children = <<H1Title, PHelloLink>>
    /\ render.content.Title = <<>>
    /\ ~render.includeMetadata
    /\ render.preserveLinks

\* C10: <h1>Title</h1><p>Hello <a href="https://x.com">link</a>.</p> rendered with
\* preserveLinks is "# Title\n\nHello [link](https://x.com).\n\n" up to trailing
\* white space: the space between the word and the link is kept.
C10_LinkSpacing == C10_Example => TrimRight(render.out) = TrimRight(C10_Expected)

\* the example rendered with the word and the link run together
C10_SpaceLost ==
    /\ C10_Example
    /\ render.out = <<"#", " ", "T", "i", "t", "l", "e", "\n", "\n", "H", "e", "l", "l", "o", "[", "l", "i", "n", "k", "]", "(">> \o LinkTarget \o <<")", ".", "\n", "\n">>


C11_BodyRenderedNothing ==
    /\ render.pc = "rendered"
    /\ convertToMarkdown(render.content.Content.Body, render.preserveLinks) = <<>>

\* C11: whenever walking the content HTML renders no output, ToMarkdown emits the
\* title/metadata header followed by CleanNewlines of textContent, whatever the
\* title and includeMetadata are.
C11_FallbackToText ==
    C11_BodyRenderedNothing =>
        \E order \in MapOrders(render.content.Metadata) :
            render.out = MarkdownHeader(render.content, render.includeMetadata, order)
                         \o CleanNewlines(render.content.TextContent)

\* <p> </p> under an empty title with text content at hand: nothing is emitted
C11_NothingEmitted ==
    /\ C11_BodyRenderedNothing
    /\ render.content.Title = <<>>
    /\ render.content.Content.Body.children = <<PBlank>>
    /\ render.content.TextContent = ParagraphText
    /\ ~render.includeMetadata
    /\ render.out = <<>>


C12_AdvisorGiven ==
    /\ clean.pc = "adfree"
    /\ \E i \in 1..Len(clean.content) : clean.content[i] = AdvisorPara

\* C12: an element without ad-pattern id or class whose text is "This is my
\* advisor's office" is still present in the output of removeAds.
C12_AdvisorKept ==
    C12_AdvisorGiven =>
        \E i \in 1..Len(FindTags(clean.doc, {"p"})) : FindTags(clean.doc, {"p"})[i] = AdvisorPara

\* the paragraph removed from between content that stays
C12_AdvisorRemoved ==
    /\ clean.pc = "adfree"
    /\ clean.content = <<LongPara, AdvisorPara>>
    /\ FindTags(clean.doc, {"p"}) = <<LongPara>>
    /\ ~Contains(clean.out, AdvisorText)


\* the nodes below node, of every type, in document order
RECURSIVE C13_Descendants(_)
C13_Descendants(node) ==
    Join([i \in 1..Len(node.children) |->
            <<node.children[i]>> \o C13_Descendants(node.children[i])], <<>>)

C13_IsNoise(n) == n.type = "element" /\ n.tag \in {"script", "style", "noscript"}

C13_IsComment(n) == n.type = "comment"

C13_IsEmptyBlock(n) ==
    n.type = "element" /\ n.tag \in {"p", "div"} /\ TrimSpace(NodeText(n)) = <<>>

\* cleanHTML(cleanHTML(x)) = cleanHTML(x)
C13_Idempotent == clean.pc = "recleaned" => clean.out2 = clean.out

\* one pass leaves no script, style or noscript element and no empty p or div
C13_NoNoise ==
    clean.pc = "cleaned" =>
        \A i \in 1..Len(C13_Descendants(clean.doc)) :
            /\ ~C13_IsNoise(C13_Descendants(clean.doc)[i])
            /\ ~C13_IsEmptyBlock(C13_Descendants(clean.doc)[i])

\* one pass leaves no HTML comment
C13_NoComment ==
    clean.pc = "cleaned" =>
        /\ \A i \in 1..Len(C13_Descendants(clean.doc)) :
              ~C13_IsComment(C13_Descendants(clean.doc)[i])
        /\ ~Contains(clean.out, <<"<!--">>)

\* C13: cleanHTML is idempotent, and after one pass the result holds no
\* script/style/noscript element, no HTML comment and no p or div whose trimmed
\* text is empty.
C13_CleanOnce == C13_Idempotent /\ C13_NoNoise /\ C13_NoComment


\* a comment ahead of the first tag, still in the markup after one pass
C13_LeadingCommentKept ==
    /\ clean.pc = "cleaned"
    /\ clean.content = <<CommentNode(<<"c">>), LongPara>>
    /\ HasPrefix(clean.out, <<"<!--", "c", "-->", "<", "html", ">">>)
    /\ FindTags(clean.doc, {"p"}) = <<LongPara>>


\* the lines of one output paragraph
C14_Lines(paragraph) == IF paragraph = <<>> THEN <<>> ELSE Split(paragraph, <<"\n">>)

\* the words of the lines, in order
C14_Words(lines) == Join([l \in 1..Len(lines) |-> Split(lines[l], <<" ">>)], <<>>)

\* the lines hold the words of the paragraph; a line is longer than lineWidth
\* only as a single word; the first word of the next line did not fit
C14_Greedy(words, lines, lineWidth) ==
    /\ C14_Words(lines) = words
    /\ \A l \in 1..Len(lines) :
          Len(lines[l]) <= lineWidth \/ Len(Split(lines[l], <<" ">>)) = 1
    /\ \A l \in 1..(Len(lines) - 1) :
          Len(lines[l]) + 1 + Len(Split(lines[l + 1], <<" ">>)[1]) > lineWidth

\* C14: with lineWidth > 0 every line wrapText produces is at most lineWidth long
\* unless it is a single longer word, a word joins the current line exactly when
\* currentLineLength + 1 + wordLength <= lineWidth, and paragraph breaks are
\* kept; with lineWidth <= 0 the text is returned unchanged.
C14_WrapBound ==
    wrap.pc = "wrapped" =>
        IF wrap.lineWidth <= 0 THEN wrap.out = wrap.text
        ELSE LET ins  == Split(wrap.text, <<"\n", "\n">>)
                 outs == Split(wrap.out, <<"\n", "\n">>)
             IN  /\ Len(outs) = Len(ins)
                 /\ \A p \in 1..Len(ins) :
                       C14_Greedy(Fields(ins[p]), C14_Lines(outs[p]), wrap.lineWidth)

\* a line broken because the next word did not fit, and a line filled with a
\* word that fits exactly
C14_Witness ==
    /\ wrap.pc = "wrapped"
    /\ wrap.lineWidth = 3
    /\ wrap.text = <<"a", " ", "a", " ", "a", "\n", "a">>
    /\ wrap.out = <<"a", " ", "a", "\n", "a", " ", "a">>


\* a run that went into the loop and returned
C15_Returned == run.pc = "exited" /\ run.i >= 1

\* every failure of the run was of this kind
C15_AllFailures(kind) ==
    /\ run.failures # <<>>
    /\ \A k \in 1..Len(run.failures) : run.failures[k] = kind

\* C15: a run that ends in failure with no URL succeeded exits with 1 only when
\* the failure was a network error and with 2 when it was a parse/extraction
\* error, with or without continue-on-error and for every backend.
C15_ExitCodeByKind ==
    (C15_Returned /\ run.successCount = 0) =>
        /\ C15_AllFailures("network") => run.exitCode = ExitNetworkError
        /\ C15_AllFailures("process") => run.exitCode = ExitProcessError

\* continue-on-error, the only URL rejected by Process: the exit code of a
\* network error
C15_ProcessErrorAsNetwork ==
    /\ C15_Returned
    /\ run.continueOnError
    /\ SelectBackend(run.extractBackend) = "local"
    /\ run.failures = <<"process">>
    /\ run.successCount = 0
    /\ run.exitCode = ExitNetworkError

\* C16: a run returns 6 exactly when at least one URL succeeded (extracted and
\* written) and at least one URL failed, and 0 exactly when no URL failed.
C16_PartialExactly ==
    C15_Returned =>
        /\ run.exitCode = ExitPartialError <=> (run.written # {} /\ run.failures # <<>>)
        /\ run.exitCode = ExitSuccess <=> run.failures = <<>>

\* continue-on-error, directory mode, the only URL extracted but its file not
\* written: exit code 6 with nothing written
C16_PartialWithoutSuccess ==
    /\ C15_Returned
    /\ Len(run.urls) = 1
    /\ run.failures = <<"fileio">>
    /\ run.written = {}
    /\ run.files = {}
    /\ run.exitCode = ExitPartialError

\* C17: an unrecognized backend name is reported as a configuration error, exit
\* code 4, not as a per-URL extraction error, and nothing is fetched or extracted.
C17_UnknownBackendIsConfigError ==
    (C15_Returned /\ SelectBackend(run.extractBackend) = "unknown") =>
        /\ run.exitCode = ExitConfigError
        /\ run.failures = <<>>
        /\ run.requests = 0

\* the unknown backend met in the loop, at the first URL: a per-URL error and the
\* exit code of an extraction error
C17_UnknownBackendPerURL ==
    /\ C15_Returned
    /\ run.extractBackend = "firecrawl"
    /\ ~run.continueOnError
    /\ run.failures = <<"config">>
    /\ run.requests = 0
    /\ run.exitCode = ExitProcessError

\* the valid URLs of lines, trimmed
C18_Valid(lines) ==
    SelectSeq([k \in 1..Len(lines) |-> TrimSpace(lines[k])],
              LAMBDA url : url # <<>> /\ isValidURL(url))

\* the contents written to the stream, without the separators
C18_Contents == SelectSeq(run.output, LAMBDA e : e.kind = "content")

C20_DistinctFilenames ==
    (run.pc = "exited" /\ run.outputDir) =>
        \A a, b \in run.written :
            run.urls[a] # run.urls[b] =>
                urlToFilename(run.urls[a], run.outputFormat)
                    # urlToFilename(run.urls[b], run.outputFormat)

\* two distinct URLs written, one file left
C20_Overwritten ==
    /\ run.pc = "exited"
    /\ run.outputDir
    /\ run.written = {1, 2}
    /\ run.urls[1] # run.urls[2]
    /\ Cardinality(run.files) = 1


\* C19: in every ProcessedContent Process returns, textContent is the normalized,
\* tag-stripped text of the returned content HTML, also after cleanHTML and
\* removeAds rewrote the content.
C19_TextDerivable ==
    proc.pc = "extracted" =>
        proc.result.TextContent = CleanNewlines(ContentText(proc.result.Content))

\* removeAds took a paragraph out of the content, the text content still holds it
C19_StaleText ==
    /\ proc.pc = "extracted"
    /\ proc.opts.RemoveAds
    /\ proc.article.Content = <<LongPara, AdvisorPara>>
    /\ FindTags(Document(proc.result.Content), {"p"}) = <<LongPara>>
    /\ ~Contains(ContentText(proc.result.Content), AdvisorText)
    /\ Contains(proc.result.TextContent, AdvisorText)


\* with neither cleanHTML nor removeAds asked for, the text content is the text
\* of the returned content
C19_UntouchedDerivable ==
    (proc.pc = "extracted" /\ ~proc.opts.CleanHTML /\ ~proc.opts.RemoveAds) =>
        proc.result.TextContent = CleanNewlines(ContentText(proc.result.Content))


\* the calls of processURL of the run, in order
C21_Attempts == SelectSeq(run.trace, LAMBDA e : e.kind = "attempt")

C25_SeparatorBetween ==
    (run.pc = "exited" /\ ~run.outputDir /\ run.continueOnError) =>
        /\ \A k \in 1..Len(run.output) :
              run.output[k].kind = "separator" =>
                  /\ 1 < k /\ k < Len(run.output)
                  /\ run.output[k - 1].kind = "content"
                  /\ run.output[k + 1].kind = "content"
        /\ \A k \in 1..(Len(run.output) - 1) :
              run.output[k].kind = "content" => run.output[k + 1].kind = "separator"

\* two URLs, the second failed: the separator is the last thing written
C25_TrailingSeparator ==
    /\ run.pc = "exited"
    /\ ~run.outputDir
    /\ run.continueOnError
    /\ Len(run.urls) = 2
    /\ run.written = {1}
    /\ run.output = <<OutputEntry(1, run.urls[1]), Separator(run.nullSeparator)>>

\* C26: with delay > 0 no two requests of a run are issued back to back, whether
\* the earlier one succeeded or failed, and there is no delay after the last URL.
C26_DelayBetweenRequests ==
    run.delay > 0 =>
        /\ \A k \in 1..(Len(run.trace) - 1) :
              ~(/\ run.trace[k].kind = "attempt" /\ run.trace[k].sent
                /\ run.trace[k + 1].kind = "attempt" /\ run.trace[k + 1].sent)
        /\ \A k \in 1..Len(run.trace) :
              run.trace[k].kind = "delay" => run.trace[k].i < Len(run.urls)

\* delay > 0, continue-on-error, the first request failed: the second request
\* follows it with no delay between
C26_NoDelayAfterFailure ==
    /\ run.delay > 0
    /\ run.continueOnError
    /\ Len(run.failures) >= 1
    /\ run.trace = <<Attempt(1, TRUE), Attempt(2, TRUE)>>


\* C22: Tavily is available exactly when its API key is non-empty; Extract with
\* an empty key ends with the API-key error and no request sent, and with a key
\* it sends its request; Jina is available and sends its request for every key.
C22_KeyRequired ==
    /\ TavilyIsAvailable(be.APIKey) <=> (be.APIKey # "")
    /\ JinaIsAvailable(be.APIKey)
    /\ (be.backend = "tavily" /\ be.pc # "start") =>
          IF be.APIKey = ""
          THEN /\ be.pc = "done"
               /\ be.requests = 0
               /\ be.result = Nil
               /\ be.err.msg = "API key not configured"
          ELSE be.requests = 1
    /\ (be.backend = "jina" /\ be.pc # "start") => be.requests = 1

\* Tavily's Extract returned without a key
C22_Witness ==
    /\ be.backend = "tavily"
    /\ be.APIKey = ""
    /\ be.pc = "done"
    /\ be.requests = 0
    /\ be.err.msg = "API key not configured"

\* Jina's Extract sent its request without a key
C22_JinaWithoutKey ==
    be.backend = "jina" /\ be.APIKey = "" /\ be.pc = "done" /\ be.result # Nil

C23_First == be.resp.body.results[1]

\* C23: a successful Tavily Extract returns the first result's title, and as
\* content "# " + title + "\n\n" + raw_content exactly when the format is
\* markdown and the title is non-empty, raw_content unchanged otherwise.
C23_ContentShaping ==
    (be.backend = "tavily" /\ be.pc = "done" /\ be.result # Nil) =>
        /\ be.result.Title = C23_First.title
        /\ IF be.format = "markdown" /\ C23_First.title # <<>>
           THEN be.result.Content =
                    <<"#", " ">> \o C23_First.title \o <<"\n", "\n">> \o C23_First.raw_content
           ELSE be.result.Content = C23_First.raw_content

\* markdown with a title: the heading is prefixed
C23_Witness ==
    /\ be.backend = "tavily" /\ be.pc = "done" /\ be.result # Nil
    /\ be.format = "markdown"
    /\ be.result.Title = <<"T">>
    /\ be.result.Content = <<"#", " ", "T", "\n", "\n", "a">>

\* markdown with an empty title: raw_content unchanged
C23_EmptyTitle ==
    /\ be.backend = "tavily" /\ be.pc = "done" /\ be.result # Nil
    /\ be.format = "markdown"
    /\ be.result.Title = <<>>
    /\ be.result.Content = <<"a">>

\* C27: a successful Extract returns the result of the requested URL: its URL
\* field is the requested URL and, for Tavily, its title and content are those of
\* a results entry that names the requested URL.
C27_ResultOfRequestedURL ==
    (be.pc = "done" /\ be.result # Nil) =>
        /\ be.result.URL = be.url
        /\ be.backend = "tavily" =>
              \E k \in 1..Len(be.resp.body.results) :
                  LET entry == be.resp.body.results[k]
                  IN  /\ entry.url = be.url
                      /\ be.result.Title = entry.title
                      /\ be.result.Content = TavilyContent(entry, be.format)

\* the requested URL is the second entry of results and the first entry, of
\* another URL, is what Extract returns
C27_OtherURLReturned ==
    /\ be.backend = "tavily" /\ be.pc = "done" /\ be.result # Nil
    /\ be.url = "https://a.example"
    /\ Len(be.resp.body.results) = 2
    /\ be.resp.body.results[2].url = "https://a.example"
    /\ be.result.URL = "https://b.example"
    /\ be.result.Content = <<"b">>


\* C24: an extraction call is never pending beyond the caller-supplied timeout,
\* an answer is only taken before it, and a call that ends by a timeout ends
\* when the caller-supplied timeout expires, not at another limit.
C24_CallerDeadline ==
    /\ call.pc = "pending" => call.elapsed <= call.timeout
    /\ (call.pc = "done" /\ call.err \in {"", "connection refused"}) =>
          call.elapsed < call.timeout
    /\ (call.pc = "done" /\ call.err \in {"context deadline exceeded", "Client.Timeout exceeded"}) =>
          call.elapsed = call.timeout

\* --timeout above 30 on the local path: the request is given up after 30 seconds
C24_FixedLimit ==
    /\ call.pc = "done"
    /\ call.backend = ""
    /\ call.timeout > SimpleFetcherTimeout
    /\ call.elapsed = SimpleFetcherTimeout
    /\ call.err = "Client.Timeout exceeded"


\* C30: in auto mode Fetch fetches statically first; it renders with JavaScript
\* only after a static page that needs it; a failed rendering falls back to the
\* static result; a static error is returned with no rendering attempted.
C30_AutoFallback ==
    (fetch.mode = FetchModeAuto /\ fetch.pc = "done") =>
        /\ fetch.staticCalls = 1
        /\ fetch.jsCalls > 0 => (fetch.static # Nil /\ needsJSRendering(fetch.static.HTML))
        /\ fetch.static = Nil => (fetch.jsCalls = 0 /\ fetch.result = Nil /\ fetch.err \in StaticErrors)
        /\ fetch.static # Nil => (fetch.err = "" /\ fetch.result # Nil)
        /\ (fetch.static # Nil /\ fetch.result # Nil /\ ~fetch.result.UsedJS) =>
              fetch.result = fetch.static

\* auto mode, the static page obtained, the rendering failed: Fetch fails
C30_RenderingFailureFailsFetch ==
    /\ fetch.mode = FetchModeAuto
    /\ fetch.pc = "done"
    /\ fetch.static # Nil
    /\ fetch.jsCalls = 1
    /\ fetch.result = Nil
    /\ fetch.err = "failed to run Chrome tasks"


\* C28: two calls of ToMarkdown with the same content, includeMetadata and
\* preserveLinks return the same string, and the output starts with the title
\* heading followed by the metadata block.
C28_Deterministic ==
    render.pc = "rendered again" =>
        /\ render.out2 = render.out
        /\ \E order \in MapOrders(render.content.Metadata) :
              HasPrefix(render.out,
                        MarkdownHeader(render.content, render.includeMetadata, order))

\* metadata with the keys date and url: the two calls list them in different orders
C28_OrderDiffers ==
    /\ render.pc = "rendered again"
    /\ render.includeMetadata
    /\ render.content.Metadata = {DateEntry, UrlEntry}
    /\ render.content.Content.Blank
    /\ render.out = MetadataLine(<<"D", "a", "t", "e">>, <<"1">>)
                    \o MetadataLine(<<"U", "r", "l">>, <<"u">>)
    /\ render.out2 = MetadataLine(<<"U", "r", "l">>, <<"u">>)
                     \o MetadataLine(<<"D", "a", "t", "e">>, <<"1">>)

C29_IsList(n) == n.type = "element" /\ n.tag \in {"ul", "ol"}

\* the rendering C29 describes: the li children of the list, one line each, with
\* the item's own text, followed by the item's nested lists one level deeper
RECURSIVE C29_Expected(_, _)
C29_Expected(list, depth) ==
    LET items == SelectSeq(list.children, LAMBDA n : n.type = "element" /\ n.tag = "li")
        line(i) ==
            LET own    == SelectSeq(items[i].children, LAMBDA n : ~C29_IsList(n))
                nested == SelectSeq(items[i].children, C29_IsList)
            IN  Repeat(<<" ", " ">>, depth)
                \o (IF list.tag = "ol" THEN Decimal(i) \o <<".", " ">> ELSE <<"-", " ">>)
                \o TrimSpace(Join([k \in 1..Len(own) |-> NodeText(own[k])], <<>>))
                \o <<"\n">>
                \o Join([k \in 1..Len(nested) |-> C29_Expected(nested[k], depth + 1)], <<>>)
    IN  Join([i \in 1..Len(items) |-> line(i)], <<>>)

C29_Lines(text) == SelectSeq(Split(text, <<"\n">>), LAMBDA l : l # <<>>)

\* the content is one list and nothing else, with no title, metadata or text
C29_OneList ==
    /\ render.pc = "rendered"
    /\ render.content.Title = <<>>
    /\ ~render.includeMetadata
    /\ render.content.TextContent = <<>>
    /\ ~render.content.Content.Blank
    /\ Len(render.content.Content.Body.children) = 1
    /\ C29_IsList(render.content.Content.Body.children[1])

\* C29: a list is rendered with one line per li, indented by two spaces per
\* depth, marked "- " or "N. " by the item's position in its own list, a nested
\* item appearing once and not within its parent's line.
C29_EachItemOnce ==
    C29_OneList =>
        C29_Lines(render.out) =
            C29_Lines(C29_Expected(render.content.Content.Body.children[1], 0))

\* <ul><li>a</li><li>b<ol><li>c</li></ol></li></ul>: c is within b's line, then
\* nested, then once more at the outer level
C29_NestedItemRepeated ==
    /\ C29_OneList
    /\ render.content.Content.Body.children[1] = NestedList
    /\ render.out = <<"-", " ", "a", "\n", "-", " ", "b", "c", "\n", " ", " ", "1", ".", " ", "c", "\n", "\n", "-", " ", "c", "\n", "\n">>

\* <ol><li>a</li><li>b</li></ol> is rendered as the claim describes
C29_FlatListRendered ==
    /\ C29_OneList
    /\ render.content.Content.Body.children[1] = FlatList
    /\ render.out = <<"1", ".", " ", "a", "\n", "2", ".", " ", "b", "\n", "\n">>

====
